---- MODULE Spec2Model ----
(***************************************************************************)
(* Model of the prepAIred backend: the scoring engine                      *)
(* (app/services/score_service.py) and the analytics persistence           *)
(* (app/services/analytics_service.py) against the versioned document      *)
(* store.                                                                  *)
(***************************************************************************)
EXTENDS Integers, Sequences, FiniteSets, TLC

(***************************************************************************)
(* Bounds of the model.                                                    *)
(***************************************************************************)
MaxQuestions == 2

(***************************************************************************)
(* Python values and dictionaries.  A dict with optional keys is a record; *)
(* a dict whose insertion order matters is a sequence of [key, val] pairs. *)
(***************************************************************************)
None == [kind |-> "none"]
StrVal(chars) == [kind |-> "str", chars |-> chars]
IntVal(n) == [kind |-> "int", n |-> n]

Range(seq) == { seq[i] : i \in 1..Len(seq) }

\* dict.get(k, default)
Get(d, k, default) == IF k \in DOMAIN d THEN d[k] ELSE default

\* k in d, d[k] and d[k] = v for an insertion-ordered dict
Has(d, k) == \E i \in 1..Len(d) : d[i].key = k
Lookup(d, k) == d[CHOOSE i \in 1..Len(d) : d[i].key = k].val
KeysOf(d) == { d[i].key : i \in 1..Len(d) }
Put(d, k, v) ==
    IF Has(d, k)
    THEN [i \in 1..Len(d) |-> IF d[i].key = k THEN [key |-> k, val |-> v] ELSE d[i]]
    ELSE Append(d, [key |-> k, val |-> v])

\* str(n) for a non-negative integer: its decimal digits
DigitChars == <<"0", "1", "2", "3", "4", "5", "6", "7", "8", "9">>
RECURSIVE Digits(_)
Digits(n) == IF n < 10 THEN <<DigitChars[n + 1]>>
             ELSE Append(Digits(n \div 10), DigitChars[(n % 10) + 1])

\* str(v)
PyStr(v) ==
    CASE v.kind = "str" -> v.chars
      [] v.kind = "int" -> Digits(v.n)
      [] OTHER -> <<"N", "o", "n", "e">>

\* s.strip(): leading and trailing whitespace removed
Whitespace == {" ", "\t", "\n"}
RECURSIVE LStrip(_)
LStrip(s) == IF s # <<>> /\ Head(s) \in Whitespace THEN LStrip(Tail(s)) ELSE s
RECURSIVE RStrip(_)
RStrip(s) == IF s # <<>> /\ s[Len(s)] \in Whitespace
             THEN RStrip(SubSeq(s, 1, Len(s) - 1)) ELSE s
Strip(s) == RStrip(LStrip(s))

(***************************************************************************)
(* ScoreService.calculate_score                                            *)
(***************************************************************************)
VARIABLES ppt_data, response_data, qpos, attempt_comparison, section_scores,
          chapter_scores, total_stats, output

\* The calls of calculate_score that ended earlier on one ScoreService, each with
\* its arguments and what it gave.
VARIABLES earlier

scoreVars == <<ppt_data, response_data, qpos, attempt_comparison, section_scores,
               chapter_scores, total_stats, output, earlier>>

\* The marking of one section: the misspelt key first, the corrected key when
\* the misspelt one is missing or falsy.
NegativeMarks(section) ==
    LET negative_marks == Get(section, "negagiveMarksPerQuestion", 0)
    IN  IF negative_marks = 0
        THEN Get(section, "negativeMarksPerQuestion", 0)
        ELSE negative_marks

RECURSIVE SectionsConfigOf(_)
SectionsConfigOf(sections) ==
    IF sections = <<>> THEN <<>>
    ELSE LET section == sections[Len(sections)]
         IN  Put(SectionsConfigOf(SubSeq(sections, 1, Len(sections) - 1)),
                 section.name,
                 [positive |-> Get(section, "marksPerQuestion", 0),
                  negative |-> NegativeMarks(section)])

sections_config == SectionsConfigOf(Get(ppt_data, "sections", <<>>))

ZeroScores == [score |-> 0, correct |-> 0, incorrect |-> 0, unattempted |-> 0,
               total_questions |-> 0]

\* The aggregators before the loop: one zero record per configured section.
InitSectionScores(cfg) == [i \in 1..Len(cfg) |-> [key |-> cfg[i].key, val |-> ZeroScores]]

questions == Get(ppt_data, "questions", <<>>)

\* Chapter of a question: chapterCode, else tags.tag2, else "Unknown".
ChapterTag(q) ==
    LET chapter_tag == Get(q, "chapterCode", "")
    IN  IF chapter_tag = "" THEN Get(Get(q, "tags", [none |-> 0]), "tag2", "Unknown")
        ELSE chapter_tag

\* tags.get on a "tags" that is null: reached when chapterCode is missing or
\* empty, and an AttributeError then.
ChapterTagRaises(q) ==
    Get(q, "chapterCode", "") = "" /\ Get(q, "tags", [none |-> 0]) = None

\* The comparison of the submitted answer with the key.
AnswerMatches(user_ans, correct_ans) == Strip(PyStr(user_ans)) = Strip(PyStr(correct_ans))

\* (variant: the answer tested for truth, "if user_ans:", so that an empty
\* answer counts as not given)
StatusOfTruthy(user_ans, correct_ans) ==
    IF user_ans # None /\ user_ans # StrVal(<<>>)
    THEN IF AnswerMatches(user_ans, correct_ans) THEN "Correct" ELSE "Incorrect"
    ELSE "Unattempted"

StatusOf(user_ans, correct_ans) ==
    IF user_ans # None
    THEN IF AnswerMatches(user_ans, correct_ans) THEN "Correct" ELSE "Incorrect"
    ELSE "Unattempted"

\* (variant: the negative marks subtracted)
MarksOfNegated(status, section_cfg) ==
    CASE status = "Correct" -> section_cfg.positive
      [] status = "Incorrect" -> 0 - section_cfg.negative
      [] OTHER -> 0

MarksOf(status, section_cfg) ==
    CASE status = "Correct" -> section_cfg.positive
      [] status = "Incorrect" -> section_cfg.negative
      [] OTHER -> 0

\* (variant: the record of a question put before the earlier ones)
ComparisonPrepended(comparison, record) == <<record>> \o comparison

\* attempt_comparison.append({...})
ComparisonAppended(comparison, record) == Append(comparison, record)

\* (variant: total_questions counts the attempted questions only)
TallyAttempted(scores, status, marks) ==
    [scores EXCEPT !.score = @ + marks,
                   !.correct = @ + (IF status = "Correct" THEN 1 ELSE 0),
                   !.incorrect = @ + (IF status = "Incorrect" THEN 1 ELSE 0),
                   !.unattempted = @ + (IF status = "Unattempted" THEN 1 ELSE 0),
                   !.total_questions = @ + (IF status = "Unattempted" THEN 0 ELSE 1)]

\* One aggregate record after one question of the given status and marks.
Tally(scores, status, marks) ==
    [scores EXCEPT !.score = @ + marks,
                   !.correct = @ + (IF status = "Correct" THEN 1 ELSE 0),
                   !.incorrect = @ + (IF status = "Incorrect" THEN 1 ELSE 0),
                   !.unattempted = @ + (IF status = "Unattempted" THEN 1 ELSE 0),
                   !.total_questions = @ + 1]

\* (variant: a section that is not configured gets its aggregate on the fly)
SectionScoresAfterAny(scores, section_name, status, marks) ==
    LET started == IF Has(scores, section_name) THEN scores
                   ELSE Put(scores, section_name, ZeroScores)
    IN  Put(started, section_name, Tally(Lookup(started, section_name), status, marks))

SectionScoresAfter(scores, section_name, status, marks) ==
    IF Has(scores, section_name)
    THEN Put(scores, section_name, Tally(Lookup(scores, section_name), status, marks))
    ELSE scores

ChapterScoresAfter(scores, chapter_tag, status, marks) ==
    LET started == IF Has(scores, chapter_tag) THEN scores
                   ELSE Put(scores, chapter_tag, ZeroScores)
    IN  Put(started, chapter_tag, Tally(Lookup(started, chapter_tag), status, marks))

TotalsAfter(totals, status, marks) ==
    [total_score |-> totals.total_score + marks,
     total_correct |-> totals.total_correct + (IF status = "Correct" THEN 1 ELSE 0),
     total_incorrect |-> totals.total_incorrect + (IF status = "Incorrect" THEN 1 ELSE 0),
     total_unattempted |-> totals.total_unattempted
                             + (IF status = "Unattempted" THEN 1 ELSE 0),
     total_questions_count |-> totals.total_questions_count + 1]

\* The output's total_stats.
TotalStatsOf(totals) ==
    [total_score |-> totals.total_score,
     total_questions |-> totals.total_questions_count,
     total_attempted |-> totals.total_correct + totals.total_incorrect,
     total_correct |-> totals.total_correct,
     total_wrong |-> totals.total_incorrect,
     total_unattempted |-> totals.total_unattempted]

(***************************************************************************)
(* Inputs of the scoring engine.                                           *)
(***************************************************************************)
SectionLists ==
    { <<>>,
      << [name |-> "S1", marksPerQuestion |-> 4, negagiveMarksPerQuestion |-> -1] >>,
      << [name |-> "S1", marksPerQuestion |-> 4, negagiveMarksPerQuestion |-> -1],
         [name |-> "S2", marksPerQuestion |-> 2, negativeMarksPerQuestion |-> -2] >>,
      << [name |-> "S2", marksPerQuestion |-> 3, negagiveMarksPerQuestion |-> 0,
          negativeMarksPerQuestion |-> 1],
         [name |-> "S1"] >> }

QuestionPool ==
    { [uuid |-> "q1", id |-> 1, section |-> "S1", correctAnswer |-> StrVal(<<"B">>),
       chapterCode |-> "PHY1"],
      [uuid |-> "q2", id |-> 2, section |-> "S1", correctAnswer |-> StrVal(<<"B", " ">>),
       tags |-> [tag2 |-> "CH2"]],
      [uuid |-> "q2", id |-> 3, section |-> "S2", correctAnswer |-> IntVal(1),
       chapterCode |-> "", tags |-> [tag1 |-> "x"]],
      [uuid |-> "q1", id |-> 4, section |-> "SX", correctAnswer |-> StrVal(<<"B">>)],
      [uuid |-> "q2", id |-> 5, section |-> "S2", correctAnswer |-> StrVal(<<"C">>),
       chapterCode |-> "PHY1"] }

\* A question whose "tags" is null.
NullTagsQuestion ==
    [uuid |-> "q1", id |-> 6, section |-> "S1", correctAnswer |-> StrVal(<<"B">>),
     tags |-> None]

AnswerPool == { None, StrVal(<<>>), StrVal(<<"B">>), StrVal(<<" ", "B", "\n">>),
                StrVal(<<"C">>), StrVal(<<"1">>) }

Uuids == {"q1", "q2"}

RECURSIVE SeqsUpTo(_, _)
SeqsUpTo(S, n) ==
    IF n = 0 THEN { <<>> }
    ELSE LET shorter == SeqsUpTo(S, n - 1)
         IN  shorter \cup { Append(s, x) : s \in { t \in shorter : Len(t) = n - 1 }, x \in S }

\* Test definitions: with or without the sections and the questions list.
TestDefinitions ==
    { [sections |-> ss, questions |-> qs] :
        ss \in SectionLists, qs \in SeqsUpTo(QuestionPool, MaxQuestions) }
    \cup { [questions |-> qs] : qs \in SeqsUpTo(QuestionPool, 1) }
    \cup { [sections |-> ss] : ss \in SectionLists }
    \cup { [title |-> "T"] }
    \cup { [sections |-> ss, questions |-> Append(qs, NullTagsQuestion)] :
              ss \in SectionLists, qs \in SeqsUpTo(QuestionPool, 1) }

\* Response sets: a mapping from some of the uuids to a submitted answer, which
\* may be null.
ResponseSets ==
    UNION { [keys -> AnswerPool] : keys \in SUBSET Uuids }

ZeroTotals == [total_score |-> 0, total_correct |-> 0, total_incorrect |-> 0,
               total_unattempted |-> 0, total_questions_count |-> 0]

NoOutput == [pending |-> TRUE]

\* calculate_score up to its loop over the questions.
ScoreStart ==
    /\ ppt_data \in TestDefinitions
    /\ response_data \in ResponseSets
    /\ qpos = 0
    /\ attempt_comparison = <<>>
    /\ section_scores = InitSectionScores(sections_config)
    /\ chapter_scores = <<>>
    /\ total_stats = ZeroTotals
    /\ output = NoOutput
    /\ earlier = <<>>

\* One iteration of the loop over the questions.
ScoreQuestion ==
    /\ output = NoOutput
    /\ qpos < Len(questions)
    /\ ~ChapterTagRaises(questions[qpos + 1])
    /\ LET q == questions[qpos + 1]
           uuid == q.uuid
           section_name == q.section
           correct_ans == q.correctAnswer
           chapter_tag == ChapterTag(q)
           user_ans == Get(response_data, uuid, None)
           section_cfg == IF Has(sections_config, section_name)
                          THEN Lookup(sections_config, section_name)
                          ELSE [positive |-> 0, negative |-> 0]
           status == StatusOf(user_ans, correct_ans)
           marks == MarksOf(status, section_cfg)
       IN  /\ section_scores' = SectionScoresAfter(section_scores, section_name, status, marks)
           /\ chapter_scores' = ChapterScoresAfter(chapter_scores, chapter_tag, status, marks)
           /\ total_stats' = TotalsAfter(total_stats, status, marks)
           /\ attempt_comparison' =
                ComparisonAppended(attempt_comparison,
                       [question_uuid |-> uuid, question_id |-> q.id,
                        section |-> section_name, chapter_tag |-> chapter_tag,
                        user_response |-> user_ans, correct_response |-> correct_ans,
                        status |-> status, marks_awarded |-> marks])
    /\ qpos' = qpos + 1
    /\ UNCHANGED <<ppt_data, response_data, output>>

\* The assembly of the output after the loop.
ScoreReturn ==
    /\ output = NoOutput
    /\ qpos = Len(questions)
    /\ output' = [attempt_comparison |-> attempt_comparison,
                  section_scores |-> section_scores,
                  chapter_scores |-> chapter_scores,
                  total_stats |-> TotalStatsOf(total_stats)]
    /\ UNCHANGED <<ppt_data, response_data, qpos, attempt_comparison, section_scores,
                   chapter_scores, total_stats>>

\* An exception in the loop leaves calculate_score without an output.
ScoreRaise ==
    /\ output = NoOutput
    /\ qpos < Len(questions)
    /\ ChapterTagRaises(questions[qpos + 1])
    /\ output' = [raised |-> "AttributeError"]
    /\ UNCHANGED <<ppt_data, response_data, qpos, attempt_comparison, section_scores,
                   chapter_scores, total_stats>>

NextScore == ScoreQuestion \/ ScoreReturn \/ ScoreRaise

(***************************************************************************)
(* Properties of calculate_score.                                          *)
(***************************************************************************)
Raised == "raised" \in DOMAIN output

Returned == output # NoOutput /\ ~Raised

RECURSIVE SumCounts(_)
SumCounts(scores) ==
    IF scores = <<>> THEN 0
    ELSE LET s == scores[Len(scores)].val
         IN  SumCounts(SubSeq(scores, 1, Len(scores) - 1))
               + s.correct + s.incorrect + s.unattempted

DeclaredSections == { s.name : s \in Range(Get(ppt_data, "sections", <<>>)) }

QuestionsOfDeclaredSections ==
    { i \in 1..Len(questions) : questions[i].section \in DeclaredSections }

\* C1 as stated: for every test definition and response set the counts of the
\* sections add up to total_questions and to the number of questions.
C1_SectionCountsSumToTotal ==
    Returned =>
        /\ SumCounts(output.section_scores) = output.total_stats.total_questions
        /\ SumCounts(output.section_scores) = Len(questions)

\* C1 amended: total_questions is the number of questions, and the counts of the
\* sections add up to the number of questions whose section is declared (to
\* total_questions when every question's section is declared).
C1_SectionCountsSumToDeclared ==
    Returned =>
        /\ output.total_stats.total_questions = Len(questions)
        /\ SumCounts(output.section_scores) = Cardinality(QuestionsOfDeclaredSections)
        /\ (QuestionsOfDeclaredSections = 1..Len(questions)
              => SumCounts(output.section_scores) = output.total_stats.total_questions)

\* C1 witness: a score returned for two questions, one of a declared section
\* and one of a section that is not declared.
C1_Witness ==
    /\ Returned
    /\ Len(questions) = 2
    /\ Cardinality(QuestionsOfDeclaredSections) = 1
    /\ SumCounts(output.section_scores) = 1

Statuses == {"Correct", "Incorrect", "Unattempted"}

\* C2 as stated: every question has one of the three statuses, and it is
\* Unattempted if and only if its uuid is not a key of the response set.
C2_UnattemptedIffNoKey ==
    Returned =>
        /\ Len(output.attempt_comparison) = Len(questions)
        /\ \A i \in 1..Len(questions) :
              /\ output.attempt_comparison[i].status \in Statuses
              /\ output.attempt_comparison[i].status = "Unattempted"
                    <=> questions[i].uuid \notin DOMAIN response_data

\* C2 amended: every question has one of the three statuses, and it is
\* Unattempted if and only if its uuid is not a key of the response set or is
\* mapped to null there.
C2_UnattemptedIffNoAnswer ==
    Returned =>
        /\ Len(output.attempt_comparison) = Len(questions)
        /\ \A i \in 1..Len(questions) :
              /\ output.attempt_comparison[i].status \in Statuses
              /\ output.attempt_comparison[i].status = "Unattempted"
                    <=> \/ questions[i].uuid \notin DOMAIN response_data
                        \/ response_data[questions[i].uuid] = None

\* C2 witness: a score returned where one question has a null answer, one an
\* empty answer and one uuid is missing from the response set.
C2_Witness ==
    /\ Returned
    /\ \E i, j \in 1..Len(questions) :
          /\ questions[i].uuid \in DOMAIN response_data
          /\ response_data[questions[i].uuid] = StrVal(<<>>)
          /\ output.attempt_comparison[i].status = "Incorrect"
          /\ questions[j].uuid \in DOMAIN response_data
          /\ response_data[questions[j].uuid] = None
          /\ output.attempt_comparison[j].status = "Unattempted"

\* The declaration of a section in the test definition, and its marks.
Declaration(name) ==
    CHOOSE s \in Range(Get(ppt_data, "sections", <<>>)) : s.name = name
PositiveOf(name) ==
    IF name \in DeclaredSections THEN Get(Declaration(name), "marksPerQuestion", 0) ELSE 0
NegativeOf(name) ==
    IF name \notin DeclaredSections THEN 0
    ELSE IF Get(Declaration(name), "negagiveMarksPerQuestion", 0) # 0
         THEN Declaration(name).negagiveMarksPerQuestion
         ELSE Get(Declaration(name), "negativeMarksPerQuestion", 0)

Answered(i) ==
    /\ questions[i].uuid \in DOMAIN response_data
    /\ response_data[questions[i].uuid] # None

ExampleDefinition ==
    [sections |-> << [name |-> "S1", marksPerQuestion |-> 4,
                      negagiveMarksPerQuestion |-> -1] >>,
     questions |-> << [uuid |-> "q1", id |-> 1, section |-> "S1",
                       correctAnswer |-> StrVal(<<"B">>), chapterCode |-> "PHY1"] >>]

ExampleOutcome(responses, status, marks) ==
    (ppt_data = ExampleDefinition /\ response_data = responses)
        => /\ output.attempt_comparison[1].status = status
           /\ output.attempt_comparison[1].marks_awarded = marks
           /\ Lookup(output.section_scores, "S1").score = marks

\* C3: a question is Correct with the positive marks of its section when the
\* answer equals the key after str() and strip(), Incorrect with the section's
\* negative marks as signed when it differs, and gets 0 when unattempted; a
\* section that is not declared marks 0 and 0; with S1 {4, -1} and key B, the
\* answer B scores 4, C scores -1 and no answer scores 0.
C3_MarksAwarded ==
    Returned =>
        /\ \A i \in 1..Len(questions) :
              LET rec == output.attempt_comparison[i]
                  q == questions[i]
              IN  IF ~Answered(i)
                  THEN rec.status = "Unattempted" /\ rec.marks_awarded = 0
                  ELSE IF Strip(PyStr(response_data[q.uuid])) = Strip(PyStr(q.correctAnswer))
                  THEN rec.status = "Correct" /\ rec.marks_awarded = PositiveOf(q.section)
                  ELSE rec.status = "Incorrect" /\ rec.marks_awarded = NegativeOf(q.section)
        /\ ExampleOutcome([q1 |-> StrVal(<<"B">>)], "Correct", 4)
        /\ ExampleOutcome([q1 |-> StrVal(<<"C">>)], "Incorrect", -1)
        /\ ExampleOutcome(<<>>, "Unattempted", 0)

\* C3 witness: the example definition scored against the answer C, and a
\* padded answer matching a padded key.
C3_Witness ==
    /\ Returned
    /\ \/ /\ ppt_data = ExampleDefinition
          /\ response_data = [q1 |-> StrVal(<<"C">>)]
          /\ output.total_stats.total_score = -1
       \/ \E i \in 1..Len(questions) :
             /\ Answered(i)
             /\ response_data[questions[i].uuid] = StrVal(<<" ", "B", "\n">>)
             /\ questions[i].correctAnswer = StrVal(<<"B", " ">>)
             /\ output.attempt_comparison[i].status = "Correct"

\* The output's totals when nothing was counted.
ZeroTotalStats ==
    [total_score |-> 0, total_questions |-> 0, total_attempted |-> 0,
     total_correct |-> 0, total_wrong |-> 0, total_unattempted |-> 0]

\* C13: calculate_score never raises for data-shape anomalies of the test
\* definition: it ends with a result; without a "questions" list, or with an
\* empty one, every total is 0, every declared section's counts are 0 and
\* attempt_comparison is empty; without a "sections" list the score is 0 and
\* there are no section aggregates.
C13_DegradesToZero ==
    output # NoOutput =>
        /\ ~Raised
        /\ (questions = <<>>) =>
              /\ output.total_stats = ZeroTotalStats
              /\ output.attempt_comparison = <<>>
              /\ \A i \in 1..Len(output.section_scores) :
                    output.section_scores[i].val = ZeroScores
        /\ ("sections" \notin DOMAIN ppt_data) =>
              /\ output.total_stats.total_score = 0
              /\ output.section_scores = <<>>

\* The sum of marks_awarded over a comparison list.
RECURSIVE MarksSum(_)
MarksSum(comparison) ==
    IF comparison = <<>> THEN 0
    ELSE Head(comparison).marks_awarded + MarksSum(Tail(comparison))

\* The sum of a field over the chapters.
RECURSIVE ChapterSum(_, _)
ChapterSum(chapters, field) ==
    IF chapters = <<>> THEN 0
    ELSE Head(chapters).val[field] + ChapterSum(Tail(chapters), field)

\* C29: the totals calculate_score returns are consistent: total_attempted =
\* total_correct + total_wrong; total_correct + total_wrong +
\* total_unattempted = total_questions = the number of questions = the sum of
\* the chapters' total_questions; for each chapter total_questions = correct +
\* incorrect + unattempted; and total_score = the sum of marks_awarded over
\* attempt_comparison = the sum of the chapters' scores.
C29_TotalsConsistent ==
    Returned =>
        LET totals == output.total_stats
            chapters == output.chapter_scores
        IN  /\ totals.total_attempted = totals.total_correct + totals.total_wrong
            /\ totals.total_correct + totals.total_wrong + totals.total_unattempted
                  = totals.total_questions
            /\ totals.total_questions = Len(questions)
            /\ totals.total_questions = ChapterSum(chapters, "total_questions")
            /\ \A i \in 1..Len(chapters) :
                  chapters[i].val.total_questions
                    = chapters[i].val.correct + chapters[i].val.incorrect
                        + chapters[i].val.unattempted
            /\ totals.total_score = MarksSum(output.attempt_comparison)
            /\ totals.total_score = ChapterSum(chapters, "score")

\* C29 witness: two questions of two chapters were scored, one answered
\* wrongly and one not answered, and the total score is negative.
C29_Witness ==
    /\ Returned
    /\ Len(output.chapter_scores) = 2
    /\ output.total_stats.total_wrong = 1
    /\ output.total_stats.total_unattempted = 1
    /\ output.total_stats.total_score < 0

\* Record i of a comparison list is the record of question i.
RecordOfQuestion(comparison, i) ==
    /\ comparison[i].question_uuid = questions[i].uuid
    /\ comparison[i].question_id = questions[i].id
    /\ comparison[i].section = questions[i].section
    /\ comparison[i].correct_response = questions[i].correctAnswer

\* C15: calculate_score appends exactly one attempt_comparison record per
\* question, in the order of the questions: after i iterations the list holds
\* i records, record k that of question k, and the list returned holds one
\* record for every question.
C15_ComparisonInOrder ==
    /\ Len(attempt_comparison) = qpos
    /\ \A i \in 1..qpos : RecordOfQuestion(attempt_comparison, i)
    /\ Returned =>
          /\ Len(output.attempt_comparison) = Len(questions)
          /\ \A i \in 1..Len(questions) : RecordOfQuestion(output.attempt_comparison, i)

\* C15 witness: two questions of different uuid, id and section were scored
\* and returned.
C15_Witness ==
    /\ Returned
    /\ Len(questions) = 2
    /\ questions[1].uuid # questions[2].uuid
    /\ questions[1].id # questions[2].id
    /\ questions[1].section # questions[2].section
    /\ Len(output.attempt_comparison) = 2

(***************************************************************************)
(* The versioned document store (the GitHub contents API) as the analytics *)
(* service uses it: a GET of a path answers 200 with the document's sha    *)
(* and content, or 404, or fails; a PUT creates the document when it is    *)
(* absent and no sha is sent, replaces it when the sha sent is the stored  *)
(* one, and is refused otherwise.                                          *)
(***************************************************************************)
VARIABLES store, clock, pc, ret, local, todo, outcome, applied, succeeded, base

storeVars == <<store, clock, pc, ret, local, todo, outcome, applied, succeeded, base>>

\* Two runs of the chapter-stats merge on copies of one document.
VARIABLES commute

\* The locals of process_test_attempt, and the database.
VARIABLES frame, db

attemptVars == <<frame, db>>

vars == <<scoreVars, storeVars, commute, attemptVars>>

\* The two concurrent operations on one user's documents.
Procs == {"a", "b"}

\* sha = None
NoSha == 0

\* JSON values, and the content of a file: base64 of the JSON text of a value,
\* or an empty file, or bytes that do not decode to JSON.
ListVal(items) == [type |-> "list", items |-> items]
DictVal(fields) == [type |-> "dict", fields |-> fields]
Encoded(value) == [kind |-> "json", value |-> value]
EmptyContent == [kind |-> "empty"]
GarbageContent == [kind |-> "garbage"]

AbsentDoc == [exists |-> FALSE, sha |-> NoSha, content |-> EmptyContent]
ForeignDoc(content) == [exists |-> TRUE, sha |-> 1, content |-> content]

\* The answers the store may give to a GET: the document as stored, or 404 when
\* there is none; or no answer (an exception), or a status that is neither.
GetResponses(doc) ==
    { IF doc.exists
      THEN [kind |-> "response", status |-> 200, sha |-> doc.sha, content |-> doc.content]
      ELSE [kind |-> "response", status |-> 404],
      [kind |-> "exception"],
      [kind |-> "response", status |-> 500] }

\* Whether the store takes a PUT with this payload.
PutAccepted(doc, payload) ==
    IF doc.exists
    THEN "sha" \in DOMAIN payload /\ payload.sha = doc.sha
    ELSE "sha" \notin DOMAIN payload

DocAfterPut(doc, payload) ==
    [exists |-> TRUE, sha |-> doc.sha + 1, content |-> payload.content]

\* The payload of a PUT: the sha is sent only when one was read.
PayloadOf(sha, content) ==
    IF sha # NoSha THEN [content |-> content, sha |-> sha] ELSE [content |-> content]

\* (variant: the sha fetched again just before the PUT)
ShaForPutRefetched(path, sha) == IF store[path].exists THEN store[path].sha ELSE NoSha

\* The sha sent with the PUT is the one read with the content.
ShaForPut(path, sha) == sha

\* A merge returns, or raises, to its caller.
Returns(p, step) ==
    /\ pc' = [pc EXCEPT ![p] = ret[p].ok]
    /\ outcome' = [outcome EXCEPT ![p][step] = "ok"]
    /\ succeeded' = [succeeded EXCEPT ![step] = @ + 1]

Raises(p, step) ==
    /\ pc' = [pc EXCEPT ![p] = ret[p].raise]
    /\ outcome' = [outcome EXCEPT ![p][step] = "error"]
    /\ UNCHANGED succeeded

NoOutcome == [analytics |-> "none", history |-> "none", chapters |-> "none", urls |-> "none"]

(***************************************************************************)
(* AnalyticsService._update_github_history                                 *)
(***************************************************************************)
\* sha and history_list after the read of the file (the try block).
HistoryRead(resp) ==
    IF resp.kind = "exception" \/ resp.status # 200
    THEN [sha |-> NoSha, history_list |-> ListVal(<<>>)]
    ELSE IF resp.content.kind = "json"
    THEN [sha |-> resp.sha, history_list |-> resp.content.value]
    ELSE [sha |-> resp.sha, history_list |-> ListVal(<<>>)]

\* (variant: without the isinstance check)
HistoryListOfUnchecked(history_list) == history_list

\* if not isinstance(history_list, list): history_list = []
HistoryListOf(history_list) ==
    IF history_list.type # "list" THEN ListVal(<<>>) ELSE history_list

\* (variant: an entry whose test_attempt_id is in the log already is left out)
HistoryAppendDeduped(history_list, new_entry) ==
    IF \E i \in 1..Len(history_list.items) :
          history_list.items[i].test_attempt_id = new_entry.test_attempt_id
    THEN history_list
    ELSE ListVal(Append(history_list.items, new_entry))

\* (variant: the new entry put first)
HistoryPrepend(history_list, new_entry) == ListVal(<<new_entry>> \o history_list.items)

\* history_list.append(new_entry)
HistoryAppend(history_list, new_entry) == ListVal(Append(history_list.items, new_entry))

\* The GET of the history file, answered by one of the responses, and all up
\* to the PUT.
HistGetFrom(p, responses) ==
    /\ pc[p] = "hist_get"
    /\ \E resp \in responses :
         LET read == HistoryRead(resp)
             history_list == HistoryListOf(read.history_list)
         IN  IF history_list.type # "list"
             THEN \* list.append on a value that is no list raises
                  /\ Raises(p, "history")
                  /\ local' = [local EXCEPT ![p] =
                        [new_entry |-> local[p].new_entry, read |-> resp]]
             ELSE /\ local' = [local EXCEPT ![p] =
                        [new_entry |-> local[p].new_entry,
                         read |-> resp,
                         sha |-> read.sha,
                         content |-> Encoded(HistoryAppend(history_list,
                                                           local[p].new_entry))]]
                  /\ pc' = [pc EXCEPT ![p] = "hist_put"]
                  /\ UNCHANGED <<outcome, succeeded>>
    /\ UNCHANGED <<store, clock, ret, todo, applied, base>>

\* The GET of the history file of a store that answers with the document.
HistGet(p) == HistGetFrom(p, GetResponses(store.history))

\* The answers to a GET and, for a document there is, a 200 with the sha and
\* no content (data.get("content") is empty).
ReadOutcomes(doc) ==
    GetResponses(doc) \cup
        (IF doc.exists
         THEN {[kind |-> "response", status |-> 200, sha |-> doc.sha,
                content |-> EmptyContent]}
         ELSE {})

\* The GET of the history file of a store that may leave the content out.
HistGetAny(p) == HistGetFrom(p, ReadOutcomes(store.history))

\* The PUT of the history file and raise_for_status.
HistPut(p) ==
    /\ pc[p] = "hist_put"
    /\ LET payload == PayloadOf(ShaForPut("history", local[p].sha), local[p].content)
       IN  IF PutAccepted(store.history, payload)
           THEN /\ store' = [store EXCEPT !.history = DocAfterPut(@, payload)]
                /\ applied' = [applied EXCEPT !.history = Append(@, local[p].new_entry)]
                /\ Returns(p, "history")
           ELSE /\ Raises(p, "history")
                /\ UNCHANGED <<store, applied>>
    /\ UNCHANGED <<clock, ret, local, todo, base>>

(***************************************************************************)
(* AnalyticsService._update_chapter_stats                                  *)
(***************************************************************************)
ZeroChapter == [attempted |-> 0, unattempted |-> 0, correct |-> 0, incorrect |-> 0,
                total_questions |-> 0]

\* sha and stats_data after the read of the file (the try block).
StatsRead(resp) ==
    IF resp.kind = "exception" \/ resp.status # 200
    THEN [sha |-> NoSha, stats_data |-> DictVal([chapters |-> DictVal(<<>>)])]
    ELSE IF resp.content.kind = "json"
    THEN [sha |-> resp.sha, stats_data |-> resp.content.value]
    ELSE [sha |-> resp.sha, stats_data |-> DictVal([chapters |-> DictVal(<<>>)])]

\* (variant: the merge starts from no chapters)
ChaptersOfNone(stats_data) == <<>>

\* chapters = stats_data.get("chapters", {}), reset when it is no dict.
ChaptersOf(stats_data) ==
    LET chapters == Get(stats_data.fields, "chapters", DictVal(<<>>))
    IN  IF chapters.type # "dict" THEN <<>> ELSE chapters.fields

\* (variant: attempted recomputed from the merged correct and incorrect)
EntryAfterRecomputed(entry, scores) ==
    LET correct == entry.correct + Get(scores, "correct", 0)
        incorrect == entry.incorrect + Get(scores, "incorrect", 0)
    IN  [correct |-> correct,
         incorrect |-> incorrect,
         unattempted |-> entry.unattempted + Get(scores, "unattempted", 0),
         total_questions |-> entry.total_questions + Get(scores, "total_questions", 0),
         attempted |-> correct + incorrect]

\* The entry of one chapter after the scores of that chapter are added.
EntryAfter(entry, scores) ==
    LET c_correct == Get(scores, "correct", 0)
        c_incorrect == Get(scores, "incorrect", 0)
        c_unattempted == Get(scores, "unattempted", 0)
        c_total == Get(scores, "total_questions", 0)
    IN  [correct |-> entry.correct + c_correct,
         incorrect |-> entry.incorrect + c_incorrect,
         unattempted |-> entry.unattempted + c_unattempted,
         total_questions |-> entry.total_questions + c_total,
         attempted |-> entry.attempted + (c_correct + c_incorrect)]

\* The loop over new_chapter_scores.
RECURSIVE ChaptersUpdated(_, _)
ChaptersUpdated(chapters, new_chapter_scores) ==
    IF new_chapter_scores = <<>> THEN chapters
    ELSE LET chapter_code == Head(new_chapter_scores).key
             scores == Head(new_chapter_scores).val
             started == IF Has(chapters, chapter_code) THEN chapters
                        ELSE Put(chapters, chapter_code, ZeroChapter)
         IN  ChaptersUpdated(
                 Put(started, chapter_code, EntryAfter(Lookup(started, chapter_code), scores)),
                 Tail(new_chapter_scores))

\* sorted(items, key=attempted): an insertion after the last item that is not
\* greater keeps the items of equal key in their order.
InsertByAttempted(sorted, item) ==
    LET before == { i \in 1..Len(sorted) : sorted[i].val.attempted <= item.val.attempted }
        k == IF before = {} THEN 0 ELSE CHOOSE i \in before : \A j \in before : j <= i
    IN  SubSeq(sorted, 1, k) \o <<item>> \o SubSeq(sorted, k + 1, Len(sorted))

RECURSIVE SortedByAttemptedFrom(_, _)
SortedByAttemptedFrom(sorted, items) ==
    IF items = <<>> THEN sorted
    ELSE SortedByAttemptedFrom(InsertByAttempted(sorted, Head(items)), Tail(items))

\* (variant: a sort that puts a later item before the earlier ones of equal key)
InsertByAttemptedFirst(sorted, item) ==
    LET before == { i \in 1..Len(sorted) : sorted[i].val.attempted < item.val.attempted }
        k == IF before = {} THEN 0 ELSE CHOOSE i \in before : \A j \in before : j <= i
    IN  SubSeq(sorted, 1, k) \o <<item>> \o SubSeq(sorted, k + 1, Len(sorted))

RECURSIVE SortedUnstableFrom(_, _)
SortedUnstableFrom(sorted, items) ==
    IF items = <<>> THEN sorted
    ELSE SortedUnstableFrom(InsertByAttemptedFirst(sorted, Head(items)), Tail(items))

SortedChaptersUnstable(chapters) == SortedUnstableFrom(<<>>, chapters)

\* (variant: no sort)
SortedChaptersNot(chapters) == chapters

SortedChapters(chapters) == SortedByAttemptedFrom(<<>>, chapters)

\* stats_data after the merge of new_chapter_scores at the given time.
StatsMerged(stats_data, new_chapter_scores, now) ==
    DictVal([chapters |-> DictVal(SortedChapters(
                              ChaptersUpdated(ChaptersOf(stats_data), new_chapter_scores))),
             last_updated |-> now])

\* The GET of the chapter-stats file, and all up to the PUT.
ChapGet(p) ==
    /\ pc[p] = "chap_get"
    /\ \E resp \in GetResponses(store.chapters) :
         LET read == StatsRead(resp)
         IN  IF read.stats_data.type # "dict"
             THEN \* stats_data.get on a value that is no dict raises
                  /\ Raises(p, "chapters")
                  /\ local' = [local EXCEPT ![p] =
                        [new_chapter_scores |-> local[p].new_chapter_scores,
                         read |-> resp]]
             ELSE /\ local' = [local EXCEPT ![p] =
                        [new_chapter_scores |-> local[p].new_chapter_scores,
                         read |-> resp,
                         sha |-> read.sha,
                         content |-> Encoded(StatsMerged(read.stats_data,
                                        local[p].new_chapter_scores, clock))]]
                  /\ pc' = [pc EXCEPT ![p] = "chap_put"]
                  /\ UNCHANGED <<outcome, succeeded>>
    /\ clock' = clock + 1
    /\ UNCHANGED <<store, ret, todo, applied, base>>

\* The PUT of the chapter-stats file and raise_for_status.
ChapPut(p) ==
    /\ pc[p] = "chap_put"
    /\ LET payload == PayloadOf(ShaForPut("chapters", local[p].sha), local[p].content)
       IN  IF PutAccepted(store.chapters, payload)
           THEN /\ store' = [store EXCEPT !.chapters = DocAfterPut(@, payload)]
                /\ applied' = [applied EXCEPT !.chapters =
                                  Append(@, local[p].new_chapter_scores)]
                /\ Returns(p, "chapters")
           ELSE /\ Raises(p, "chapters")
                /\ UNCHANGED <<store, applied>>
    /\ UNCHANGED <<clock, ret, local, todo, base>>

(***************************************************************************)
(* Callers of the two merges on one user's files.                          *)
(***************************************************************************)
MaxHistCalls == 2
MaxChapCalls == 1

HistEntry(p, n) == [test_attempt_id |-> p, timestamp |-> n]

ForeignEntry == [test_attempt_id |-> "old", timestamp |-> 0]

\* What the history file may hold before the first call.
HistoryDocs ==
    { AbsentDoc,
      ForeignDoc(EmptyContent),
      ForeignDoc(GarbageContent),
      ForeignDoc(Encoded(DictVal([note |-> "x"]))),
      ForeignDoc(Encoded(ListVal(<<>>))),
      ForeignDoc(Encoded(ListVal(<<ForeignEntry>>))) }

Chapter(attempted, correct, incorrect, unattempted) ==
    [attempted |-> attempted, unattempted |-> unattempted, correct |-> correct,
     incorrect |-> incorrect, total_questions |-> correct + incorrect + unattempted]

Pair(k, v) == [key |-> k, val |-> v]

StatsDoc(chapters) ==
    ForeignDoc(Encoded(DictVal([chapters |-> DictVal(chapters), last_updated |-> 0])))

\* What the chapter-stats file may hold before the first call.
ChapterDocs ==
    { AbsentDoc,
      ForeignDoc(EmptyContent),
      ForeignDoc(GarbageContent),
      ForeignDoc(Encoded(ListVal(<<>>))),
      ForeignDoc(Encoded(DictVal([last_updated |-> 0]))),
      ForeignDoc(Encoded(DictVal([chapters |-> ListVal(<<>>), last_updated |-> 0]))),
      StatsDoc(<<Pair("A", Chapter(1, 1, 0, 0)), Pair("B", Chapter(2, 1, 1, 1))>>),
      StatsDoc(<<Pair("B", Chapter(1, 0, 1, 0)), Pair("A", Chapter(1, 1, 0, 2))>>),
      StatsDoc(<<Pair("B", Chapter(3, 1, 1, 0)), Pair("A", Chapter(1, 1, 0, 0))>>) }

Scores(score, correct, incorrect, unattempted) ==
    [score |-> score, correct |-> correct, incorrect |-> incorrect,
     unattempted |-> unattempted, total_questions |-> correct + incorrect + unattempted]

\* The chapter_scores a caller may pass.
ChapterScoreSets ==
    { <<>>,
      <<Pair("A", Scores(4, 1, 0, 0))>>,
      <<Pair("B", Scores(-1, 0, 1, 1))>>,
      <<Pair("C", Scores(4, 1, 0, 0)), Pair("D", Scores(-1, 0, 1, 0))>>,
      <<Pair("D", Scores(0, 0, 0, 1)), Pair("A", Scores(3, 1, 1, 0))>> }

InitStore(historyDoc, chaptersDoc, calls) ==
    /\ store = [history |-> historyDoc, chapters |-> chaptersDoc]
    /\ base = store
    /\ clock = 1
    /\ pc = [p \in Procs |-> "idle"]
    /\ ret = [p \in Procs |-> [ok |-> "idle", raise |-> "idle"]]
    /\ local = [p \in Procs |-> [idle |-> TRUE]]
    /\ todo = [p \in Procs |-> calls]
    /\ outcome = [p \in Procs |-> NoOutcome]
    /\ applied = [history |-> <<>>, chapters |-> <<>>]
    /\ succeeded = [analytics |-> 0, history |-> 0, chapters |-> 0, urls |-> 0]

ScoreIdle ==
    /\ ppt_data = [questions |-> <<>>]
    /\ response_data = <<>>
    /\ qpos = 0
    /\ attempt_comparison = <<>>
    /\ section_scores = <<>>
    /\ chapter_scores = <<>>
    /\ total_stats = ZeroTotals
    /\ output = NoOutput
    /\ earlier = <<>>

\* The user_analytics table of one user: no row, or the user's row.
NoRow == [exists |-> FALSE]

InitDb(row) ==
    /\ db = [user_analytics |-> row]
    /\ frame = [p \in Procs |-> [idle |-> TRUE]]

NoCommute == [stats_data |-> DictVal([chapters |-> DictVal(<<>>)]),
              deltas |-> <<>>, done |-> <<>>, result |-> <<>>]

\* The two operations contend for the history file, or for the chapter-stats
\* file.
InitMerge ==
    /\ ScoreIdle
    /\ commute = NoCommute
    /\ InitDb(NoRow)
    /\ \/ \E doc \in HistoryDocs :
            InitStore(doc, AbsentDoc, [i \in 1..MaxHistCalls |-> "history"])
       \/ \E doc \in ChapterDocs :
            InitStore(AbsentDoc, doc, [i \in 1..MaxChapCalls |-> "chapters"])

\* A caller starts _update_github_history(filename, new_entry).
HistCall(p) ==
    /\ pc[p] = "idle"
    /\ todo[p] # <<>> /\ Head(todo[p]) = "history"
    /\ todo' = [todo EXCEPT ![p] = Tail(@)]
    /\ clock' = clock + 1
    /\ local' = [local EXCEPT ![p] = [new_entry |-> HistEntry(p, clock)]]
    /\ outcome' = [outcome EXCEPT ![p] = NoOutcome]
    /\ ret' = [ret EXCEPT ![p] = [ok |-> "idle", raise |-> "idle"]]
    /\ pc' = [pc EXCEPT ![p] = "hist_get"]
    /\ UNCHANGED <<store, applied, succeeded, base>>

\* A caller starts _update_chapter_stats(user_id, new_chapter_scores).
ChapCall(p) ==
    /\ pc[p] = "idle"
    /\ todo[p] # <<>> /\ Head(todo[p]) = "chapters"
    /\ todo' = [todo EXCEPT ![p] = Tail(@)]
    /\ \E new_chapter_scores \in ChapterScoreSets :
         local' = [local EXCEPT ![p] = [new_chapter_scores |-> new_chapter_scores]]
    /\ outcome' = [outcome EXCEPT ![p] = NoOutcome]
    /\ ret' = [ret EXCEPT ![p] = [ok |-> "idle", raise |-> "idle"]]
    /\ pc' = [pc EXCEPT ![p] = "chap_get"]
    /\ UNCHANGED <<store, clock, applied, succeeded, base>>

NextMerge ==
    \E p \in Procs :
        \/ HistCall(p) /\ UNCHANGED <<scoreVars, commute, attemptVars>>
        \/ HistGet(p) /\ UNCHANGED <<scoreVars, commute, attemptVars>>
        \/ HistPut(p) /\ UNCHANGED <<scoreVars, commute, attemptVars>>
        \/ ChapCall(p) /\ UNCHANGED <<scoreVars, commute, attemptVars>>
        \/ ChapGet(p) /\ UNCHANGED <<scoreVars, commute, attemptVars>>
        \/ ChapPut(p) /\ UNCHANGED <<scoreVars, commute, attemptVars>>

SpecMerge == InitMerge /\ [][NextMerge]_vars

\* The two merges when a GET may be answered without the content.
NextAnyRead ==
    \E p \in Procs :
        \/ HistCall(p) /\ UNCHANGED <<scoreVars, commute, attemptVars>>
        \/ HistGetAny(p) /\ UNCHANGED <<scoreVars, commute, attemptVars>>
        \/ HistPut(p) /\ UNCHANGED <<scoreVars, commute, attemptVars>>
        \/ ChapCall(p) /\ UNCHANGED <<scoreVars, commute, attemptVars>>
        \/ ChapGet(p) /\ UNCHANGED <<scoreVars, commute, attemptVars>>
        \/ ChapPut(p) /\ UNCHANGED <<scoreVars, commute, attemptVars>>

SpecAnyRead == InitMerge /\ [][NextAnyRead]_vars

(***************************************************************************)
(* The merge of two sets of chapter scores in both orders.                 *)
(***************************************************************************)
\* The stats_data a merge may start from: the default of an absent file, or
\* the JSON object of a stored one.
StatsValues ==
    { DictVal([chapters |-> DictVal(<<>>)]) }
    \cup { doc.content.value : doc \in { d \in ChapterDocs :
                d.exists /\ d.content.kind = "json" /\ d.content.value.type = "dict" } }

\* One document and two sets of chapter scores with no chapter in common.
InitCommute ==
    /\ ScoreIdle
    /\ InitDb(NoRow)
    /\ InitStore(AbsentDoc, AbsentDoc, <<>>)
    /\ \E stats_data \in StatsValues, d1, d2 \in ChapterScoreSets :
         /\ KeysOf(d1) \cap KeysOf(d2) = {}
         /\ commute = [stats_data |-> stats_data,
                       deltas |-> [ab |-> <<d1, d2>>, ba |-> <<d2, d1>>],
                       done |-> [ab |-> 0, ba |-> 0],
                       result |-> [ab |-> stats_data, ba |-> stats_data]]

\* The next merge of one of the two runs, on the document its last merge wrote.
CommuteMerge(run) ==
    /\ commute.done[run] < Len(commute.deltas[run])
    /\ commute' = [commute EXCEPT
                     !.done[run] = @ + 1,
                     !.result[run] = StatsMerged(@, commute.deltas[run][commute.done[run] + 1],
                                                 clock)]
    /\ clock' = clock + 1
    /\ UNCHANGED <<scoreVars, attemptVars, store, pc, ret, local, todo, outcome, applied,
                   succeeded, base>>

NextCommute == \E run \in {"ab", "ba"} : CommuteMerge(run)

SpecCommute == InitCommute /\ [][NextCommute]_vars

CommuteDone(run) == commute.done # <<>> /\ commute.done[run] = 2

CommuteChapters(run) == ChaptersOf(commute.result[run])

Ascending(chapters) ==
    \A i, j \in 1..Len(chapters) :
        i < j => chapters[i].val.attempted <= chapters[j].val.attempted

\* C9: for two sets of chapter scores with no chapter in common, merging one
\* then the other gives every chapter the same counts as merging them in the
\* other order, and both results are in ascending order of attempted.
C9_DisjointMergesCommute ==
    /\ \A run \in {"ab", "ba"} :
          CommuteDone(run) =>
             /\ Ascending(CommuteChapters(run))
             /\ KeysOf(CommuteChapters(run))
                  = KeysOf(ChaptersOf(commute.stats_data))
                      \cup KeysOf(commute.deltas.ab[1]) \cup KeysOf(commute.deltas.ab[2])
    /\ (CommuteDone("ab") /\ CommuteDone("ba")) =>
          \A code \in KeysOf(CommuteChapters("ab")) :
              Lookup(CommuteChapters("ab"), code) = Lookup(CommuteChapters("ba"), code)

\* C9 witness: both orders merged two non-empty sets into a document with
\* chapters, and the two results list the chapters in different orders.
C9_Witness ==
    /\ CommuteDone("ab")
    /\ CommuteDone("ba")
    /\ commute.deltas.ab[1] # <<>>
    /\ commute.deltas.ab[2] # <<>>
    /\ ChaptersOf(commute.stats_data) # <<>>
    /\ CommuteChapters("ab") # CommuteChapters("ba")

(***************************************************************************)
(* Properties of the two merges.                                           *)
(***************************************************************************)
WellFormedLog(doc) ==
    doc.exists /\ doc.content.kind = "json" /\ doc.content.value.type = "list"

\* The entries of a history file that a merge keeps.
LogOf(doc) == IF WellFormedLog(doc) THEN doc.content.value.items ELSE <<>>

WellFormedStats(doc) ==
    /\ doc.exists
    /\ doc.content.kind = "json"
    /\ doc.content.value.type = "dict"
    /\ "chapters" \in DOMAIN doc.content.value.fields
    /\ doc.content.value.fields.chapters.type = "dict"

\* The chapters of a chapter-stats file that a merge keeps.
StatsOf(doc) ==
    IF WellFormedStats(doc) THEN doc.content.value.fields.chapters.fields ELSE <<>>

EntryOf(dict, k) == IF Has(dict, k) THEN Lookup(dict, k) ELSE ZeroChapter

\* The sum of one count of one chapter over a sequence of chapter_scores.
RECURSIVE SumOver(_, _, _)
SumOver(deltas, code, field) ==
    IF deltas = <<>> THEN 0
    ELSE SumOver(Tail(deltas), code, field)
           + (IF Has(Head(deltas), code) THEN Lookup(Head(deltas), code)[field] ELSE 0)

RECURSIVE KeysOver(_)
KeysOver(deltas) ==
    IF deltas = <<>> THEN {} ELSE KeysOf(Head(deltas)) \cup KeysOver(Tail(deltas))

\* A write whose sha is not the stored one (or is missing for a stored file) is
\* refused: the file stays and the call raises.
StaleWriteFails(p, from, path) ==
    (/\ pc[p] = from
     /\ pc'[p] # from
     /\ store[path].exists
     /\ local[p].sha # store[path].sha)
        => (store'[path] = store[path] /\ outcome'[p][path] = "error")

HistoryHoldsApplied ==
    IF applied.history = <<>>
    THEN store.history = base.history
    ELSE /\ WellFormedLog(store.history)
         /\ LogOf(store.history) = LogOf(base.history) \o applied.history

ChaptersHoldApplied ==
    IF applied.chapters = <<>>
    THEN store.chapters = base.chapters
    ELSE /\ WellFormedStats(store.chapters)
         /\ KeysOf(StatsOf(store.chapters))
              = KeysOf(StatsOf(base.chapters)) \cup KeysOver(applied.chapters)
         /\ \A code \in KeysOf(StatsOf(store.chapters)) :
              LET e == Lookup(StatsOf(store.chapters), code)
                  b == EntryOf(StatsOf(base.chapters), code)
                  d(field) == SumOver(applied.chapters, code, field)
              IN  /\ e.correct = b.correct + d("correct")
                  /\ e.incorrect = b.incorrect + d("incorrect")
                  /\ e.unattempted = b.unattempted + d("unattempted")
                  /\ e.total_questions = b.total_questions + d("total_questions")
                  /\ e.attempted = b.attempted + d("correct") + d("incorrect")

\* C4: under any interleaving of the two operations on one file no update is
\* lost: a write with a stale or missing sha is refused and raises, and the
\* file holds what it held at first (when well formed) and exactly the
\* contributions of the writes that succeeded.
C4_NoLostUpdate ==
    /\ [](HistoryHoldsApplied /\ ChaptersHoldApplied)
    /\ [][\A p \in Procs : /\ StaleWriteFails(p, "hist_put", "history")
                           /\ StaleWriteFails(p, "chap_put", "chapters")]_vars

\* C4 witness: both operations read the same chapter-stats file, one wrote,
\* and the write of the other, whose sha had become stale, was refused.
C4_Witness ==
    \E p, q \in Procs :
        /\ outcome[p].chapters = "ok"
        /\ outcome[q].chapters = "error"
        /\ "read" \in DOMAIN local[q]
        /\ local[q].read.kind = "response"
        /\ local[q].read.status = 200
        /\ local[q].sha = local[p].sha
        /\ local[q].new_chapter_scores # <<>>
        /\ applied.chapters = <<local[p].new_chapter_scores>>

OnlyCaller(p) ==
    \A q \in Procs \ {p} : pc[q] = "idle" /\ Len(todo[q]) = MaxHistCalls

IsPrefix(s, t) == Len(s) <= Len(t) /\ SubSeq(t, 1, Len(s)) = s

\* C5: from an absent history file, after N successful merges made one after
\* the other the log has exactly N entries in call order, and every merge
\* keeps the stored entries as a prefix of the new log.
C5_AppendOnly ==
    /\ [](\A p \in Procs :
            (~base.history.exists /\ base.chapters = AbsentDoc /\ OnlyCaller(p)) =>
                /\ Len(LogOf(store.history)) = succeeded.history
                /\ store.history.exists <=> succeeded.history > 0
                /\ store.history.exists => WellFormedLog(store.history)
                /\ \A i \in 1..Len(LogOf(store.history)) :
                     /\ LogOf(store.history)[i].test_attempt_id = p
                     /\ \A j \in 1..Len(LogOf(store.history)) :
                          i < j => LogOf(store.history)[i].timestamp
                                     < LogOf(store.history)[j].timestamp)
    /\ [][(WellFormedLog(store.history) /\ store.history' # store.history) =>
            /\ WellFormedLog(store.history')
            /\ Len(LogOf(store.history')) = Len(LogOf(store.history)) + 1
            /\ IsPrefix(LogOf(store.history), LogOf(store.history'))]_vars

\* C5 witness: one caller made two merges on a file absent at first, both
\* succeeded and the log holds the two entries.
C5_Witness ==
    \E p \in Procs :
        /\ ~base.history.exists
        /\ OnlyCaller(p)
        /\ succeeded.history = 2
        /\ Len(LogOf(store.history)) = 2
        /\ pc[p] = "idle"

\* C30: _update_chapter_stats changes only the chapters named in
\* new_chapter_scores: when its write succeeds, every chapter of the stored
\* document that is not named keeps its five counts, no chapter of the stored
\* document is removed, the chapters added are named ones, and (the counts of
\* new_chapter_scores not being negative) no stored count decreases.
C30_OnlyNamedChaptersChange ==
    [][\A p \in Procs :
         (/\ pc[p] = "chap_put"
          /\ pc'[p] # "chap_put"
          /\ store.chapters' # store.chapters) =>
             LET old == StatsOf(store.chapters)
                 new == StatsOf(store.chapters')
                 named == KeysOf(local[p].new_chapter_scores)
             IN  /\ WellFormedStats(store.chapters')
                 /\ KeysOf(new) = KeysOf(old) \cup named
                 /\ \A code \in KeysOf(old) \ named :
                      Lookup(new, code) = Lookup(old, code)
                 /\ \A code \in KeysOf(old) :
                      \A count \in DOMAIN ZeroChapter :
                         Lookup(new, code)[count] >= Lookup(old, code)[count]]_vars

\* C30 witness: the file held the chapters A and B, a merge that named C and
\* D succeeded, and the file holds the four chapters, A and B as before.
C30_Witness ==
    /\ KeysOf(StatsOf(base.chapters)) = {"A", "B"}
    /\ Len(applied.chapters) = 1
    /\ KeysOf(applied.chapters[1]) = {"C", "D"}
    /\ KeysOf(StatsOf(store.chapters)) = {"A", "B", "C", "D"}
    /\ \A code \in {"A", "B"} :
         Lookup(StatsOf(store.chapters), code) = Lookup(StatsOf(base.chapters), code)

\* C24: _update_github_history never replaces a stored well-formed log by a
\* shorter one: whenever its write succeeds on a file whose stored content is
\* a well-formed list, the content written is that list with the new entry
\* appended, whatever the read gave: an exception, a status other than 200, or
\* a 200 with a sha and no content.
C24_NeverShortens ==
    [][\A p \in Procs :
         (/\ pc[p] = "hist_put"
          /\ pc'[p] # "hist_put"
          /\ store.history' # store.history
          /\ WellFormedLog(store.history)) =>
             store.history'.content
               = Encoded(HistoryAppend(store.history.content.value,
                                       local[p].new_entry))]_vars

MalformedRead(p) ==
    /\ "read" \in DOMAIN local[p]
    /\ "new_entry" \in DOMAIN local[p]
    /\ local[p].read.kind = "response"
    /\ local[p].read.status = 200
    /\ \/ local[p].read.content.kind # "json"
       \/ local[p].read.content.value.type # "list"

\* C6: a merge that reads malformed content (not parseable, or no sequence)
\* discards it and sends a log of exactly the new entry, and, with no other
\* writer, writes it and returns without raising.
C6_MalformedHistoryReset ==
    /\ \A p \in Procs : pc[p] = "hist_get" => outcome[p].history = "none"
    /\ \A p \in Procs :
         MalformedRead(p) =>
            /\ "content" \in DOMAIN local[p]
            /\ local[p].content = Encoded(ListVal(<<local[p].new_entry>>))
            /\ local[p].sha = local[p].read.sha
            /\ (OnlyCaller(p) /\ Len(todo[p]) = MaxHistCalls - 1) =>
                  \/ /\ pc[p] = "hist_put"
                     /\ outcome[p].history = "none"
                     /\ store.history = base.history
                  \/ /\ pc[p] = "idle"
                     /\ outcome[p].history = "ok"
                     /\ store.history.content = Encoded(ListVal(<<local[p].new_entry>>))

\* C6 witness: a merge read a file holding a JSON object, wrote the log of its
\* one entry and returned.
C6_Witness ==
    \E p \in Procs :
        /\ MalformedRead(p)
        /\ local[p].read.content.kind = "json"
        /\ outcome[p].history = "ok"
        /\ LogOf(store.history) = <<local[p].new_entry>>

\* A call of _update_chapter_stats that has merged what it read.
Merged(p) ==
    /\ "content" \in DOMAIN local[p]
    /\ "new_chapter_scores" \in DOMAIN local[p]

ReadDocument(p) == local[p].read.kind = "response" /\ local[p].read.status = 200

ReadChapters(p) == ChaptersOf(StatsRead(local[p].read).stats_data)

MergedChapters(p) == local[p].content.value.fields.chapters.fields

\* C7 as stated: after a merge on an existing document every chapter of the
\* delta set has attempted = correct + incorrect.
C7_AttemptedRecomputed ==
    \A p \in Procs :
        (Merged(p) /\ ReadDocument(p)) =>
            \A code \in KeysOf(local[p].new_chapter_scores) :
                LET e == Lookup(MergedChapters(p), code)
                IN  e.attempted = e.correct + e.incorrect

\* C7 amended: after a merge every chapter of the delta set has the attempted
\* count it had in the document read (0 when new) plus the delta's correct and
\* incorrect; so attempted = correct + incorrect holds after the merge exactly
\* when it held for that chapter in the document read.
C7_AttemptedAccumulated ==
    \A p \in Procs :
        Merged(p) =>
            \A code \in KeysOf(local[p].new_chapter_scores) :
                LET e == Lookup(MergedChapters(p), code)
                    b == EntryOf(ReadChapters(p), code)
                    d == Lookup(local[p].new_chapter_scores, code)
                IN  /\ e.attempted = b.attempted + d.correct + d.incorrect
                    /\ e.correct = b.correct + d.correct
                    /\ e.incorrect = b.incorrect + d.incorrect
                    /\ (e.attempted = e.correct + e.incorrect)
                         <=> (b.attempted = b.correct + b.incorrect)

\* C7 witness: a merge on a document whose chapter B had attempted 3 with
\* correct 1 and incorrect 1 added to B and was written.
C7_Witness ==
    \E p \in Procs :
        /\ Merged(p)
        /\ ReadDocument(p)
        /\ outcome[p].chapters = "ok"
        /\ store.chapters.content = local[p].content
        /\ Has(local[p].new_chapter_scores, "B")
        /\ Has(ReadChapters(p), "B")
        /\ Lookup(ReadChapters(p), "B").attempted = 3
        /\ Lookup(MergedChapters(p), "B").attempted = 4
        /\ Lookup(MergedChapters(p), "B").correct = 1
        /\ Lookup(MergedChapters(p), "B").incorrect = 2

PositionIn(dict, k) == CHOOSE i \in 1..Len(dict) : dict[i].key = k

\* The place of a chapter before the sort: its place in the document read, or
\* after all of them in the order of the delta set.
PlaceBeforeSort(p, k) ==
    IF Has(ReadChapters(p), k) THEN PositionIn(ReadChapters(p), k)
    ELSE Len(ReadChapters(p)) + PositionIn(local[p].new_chapter_scores, k)

\* C8: the chapters written by a merge are in ascending order of attempted,
\* and chapters of equal attempted keep the order they had before the sort:
\* the chapters of the document in stored order, then the new ones.
C8_SortedStable ==
    \A p \in Procs :
        Merged(p) =>
            LET written == MergedChapters(p)
            IN  /\ KeysOf(written)
                     = KeysOf(ReadChapters(p)) \cup KeysOf(local[p].new_chapter_scores)
                /\ \A i, j \in 1..Len(written) :
                     i < j =>
                        /\ written[i].val.attempted <= written[j].val.attempted
                        /\ written[i].val.attempted = written[j].val.attempted
                             => PlaceBeforeSort(p, written[i].key)
                                  < PlaceBeforeSort(p, written[j].key)

\* C8 witness: a merge wrote four chapters of equal attempted, two of the
\* document in stored order B, A and then two new ones.
C8_Witness ==
    \E p \in Procs :
        /\ Merged(p)
        /\ outcome[p].chapters = "ok"
        /\ store.chapters.content = local[p].content
        /\ Len(MergedChapters(p)) = 4
        /\ MergedChapters(p)[1].key = "B"
        /\ MergedChapters(p)[2].key = "A"
        /\ MergedChapters(p)[3].key = "C"
        /\ MergedChapters(p)[4].val.attempted = MergedChapters(p)[1].val.attempted

(***************************************************************************)
(* AnalyticsService.process_test_attempt                                   *)
(***************************************************************************)
\* history_url or chapter_url of a row that has none yet.
NoUrl == ""

\* content.download_url in the store's answer to an accepted PUT.
DownloadUrl == [history |-> "user_analytics/u1.json",
                chapters |-> "user_analytics/u1_chapters.json"]

\* The student_tests table: two attempts of user u1, a row without user_id,
\* a row without result_url and a row without test_id.
StudentTests ==
    << Pair("t1", [user_id |-> "u1", result_url |-> "r1", test_id |-> "T"]),
       Pair("t2", [user_id |-> "u1", result_url |-> "r2", test_id |-> "T"]),
       Pair("t3", [result_url |-> "r3", test_id |-> "T"]),
       Pair("t4", [user_id |-> "u1", test_id |-> "T"]),
       Pair("t5", [user_id |-> "u1", result_url |-> "r5"]) >>

\* The test_attempt_id argument: the ids of the table and one that is not there.
AttemptIds == KeysOf(StudentTests) \cup {"t0"}

\* What steps 2 to 4 derive from the score JSON of an attempt.
DerivedScores ==
    { [phy_score |-> 4, chem_score |-> 0, math_score |-> 0,
       accuracy_int |-> 100, percentile_int |-> 10,
       chapter_scores |-> <<Pair("A", Scores(4, 1, 0, 0))>>],
      [phy_score |-> 3, chem_score |-> 4, math_score |-> 0,
       accuracy_int |-> 67, percentile_int |-> 20,
       chapter_scores |-> <<Pair("D", Scores(0, 0, 0, 1)),
                            Pair("A", Scores(3, 1, 1, 0))>>] }

\* The user's row of user_analytics before the first operation, when there is
\* one.
StoredRow(history_url, chapter_url) ==
    [exists |-> TRUE, user_id |-> "u1", attempt_no |-> 1, phy_avg |-> 4,
     chem_avg |-> 0, math_avg |-> 0, accuracy |-> 100, percentile |-> 10,
     history_url |-> history_url, chapter_url |-> chapter_url]

\* A row of the user whose accuracy, percentile and URLs are null.
RowWithNulls ==
    [exists |-> TRUE, user_id |-> "u1", attempt_no |-> 1, phy_avg |-> 4,
     chem_avg |-> 0, math_avg |-> 0, history_url |-> NoUrl, chapter_url |-> NoUrl]

\* The row an insert creates, before the values sent.
NewRow == [exists |-> TRUE, history_url |-> NoUrl, chapter_url |-> NoUrl]

\* A row with the values of an insert or update written over it.
RowWith(row, values) ==
    [k \in DOMAIN row \cup DOMAIN values |->
        IF k \in DOMAIN values THEN values[k] ELSE row[k]]

\* (variant: the mean of the attempts so far instead of their sum)
AnalyticsUpdateMean(current_data, user_id, score) ==
    LET n == Get(current_data, "attempt_no", 0)
        Mean(field, value) == (Get(current_data, field, 0) * n + value) \div (n + 1)
    IN  [user_id |-> user_id,
         attempt_no |-> n + 1,
         phy_avg |-> Mean("phy_avg", score.phy_score),
         chem_avg |-> Mean("chem_avg", score.chem_score),
         math_avg |-> Mean("math_avg", score.math_score),
         accuracy |-> Mean("accuracy", score.accuracy_int),
         percentile |-> Mean("percentile", score.percentile_int)]

\* analytics_update: the sums of the row read and the scores of the attempt.
AnalyticsUpdate(current_data, user_id, score) ==
    [user_id |-> user_id,
     attempt_no |-> Get(current_data, "attempt_no", 0) + 1,
     phy_avg |-> Get(current_data, "phy_avg", 0) + score.phy_score,
     chem_avg |-> Get(current_data, "chem_avg", 0) + score.chem_score,
     math_avg |-> Get(current_data, "math_avg", 0) + score.math_score,
     accuracy |-> Get(current_data, "accuracy", 0) + score.accuracy_int,
     percentile |-> Get(current_data, "percentile", 0) + score.percentile_int]

\* history_entry
HistoryEntry(test_attempt_id, now, score, analytics_update) ==
    [test_attempt_id |-> test_attempt_id,
     timestamp |-> now,
     phy_score |-> score.phy_score,
     chem_score |-> score.chem_score,
     math_score |-> score.math_score,
     accuracy |-> score.accuracy_int,
     percentile |-> score.percentile_int,
     cumulative_stats |-> [phy_avg |-> analytics_update.phy_avg,
                           chem_avg |-> analytics_update.chem_avg,
                           math_avg |-> analytics_update.math_avg,
                           accuracy |-> analytics_update.accuracy,
                           percentile |-> analytics_update.percentile,
                           attempt_no |-> analytics_update.attempt_no]]

\* The user has no row and no files, or a row and both files.
InitAttempt ==
    /\ ScoreIdle
    /\ commute = NoCommute
    /\ \/ /\ InitDb(NoRow)
          /\ InitStore(AbsentDoc, AbsentDoc, <<"attempt">>)
       \/ /\ \/ InitDb(StoredRow(DownloadUrl.history, DownloadUrl.chapters))
             \/ InitDb(RowWithNulls)
          /\ InitStore(ForeignDoc(Encoded(ListVal(<<ForeignEntry>>))),
                       StatsDoc(<<Pair("A", Chapter(1, 1, 0, 0))>>),
                       <<"attempt">>)

\* Steps 1 to 4: the student_tests record and its checks, and the score JSON,
\* whose fetch may fail.
AttemptStart(p) ==
    /\ pc[p] = "idle"
    /\ todo[p] # <<>> /\ Head(todo[p]) = "attempt"
    /\ todo' = [todo EXCEPT ![p] = Tail(@)]
    /\ outcome' = [outcome EXCEPT ![p] = NoOutcome]
    /\ \E test_attempt_id \in AttemptIds, fetched \in BOOLEAN, score \in DerivedScores :
         LET student_test == IF Has(StudentTests, test_attempt_id)
                             THEN Lookup(StudentTests, test_attempt_id)
                             ELSE [missing |-> TRUE]
         IN  IF \/ ~Has(StudentTests, test_attempt_id)
                \/ "result_url" \notin DOMAIN student_test
                \/ "user_id" \notin DOMAIN student_test
                \/ ~fetched
             THEN /\ pc' = [pc EXCEPT ![p] = "failed"]
                  /\ frame' = [frame EXCEPT ![p] =
                                  [test_attempt_id |-> test_attempt_id]]
             ELSE /\ pc' = [pc EXCEPT ![p] = "analytics_select"]
                  /\ frame' = [frame EXCEPT ![p] =
                                  [test_attempt_id |-> test_attempt_id,
                                   user_id |-> student_test.user_id,
                                   score |-> score]]
    /\ UNCHANGED <<store, clock, ret, local, applied, succeeded, base, db>>

\* Step 5: the select of the user's row.
AnalyticsSelect(p) ==
    /\ pc[p] = "analytics_select"
    /\ frame' = [frame EXCEPT ![p] =
                    [test_attempt_id |-> frame[p].test_attempt_id,
                     user_id |-> frame[p].user_id,
                     score |-> frame[p].score,
                     current_data |-> db.user_analytics]]
    /\ pc' = [pc EXCEPT ![p] = "analytics_write"]
    /\ UNCHANGED <<store, clock, ret, local, todo, outcome, applied, succeeded,
                   base, db>>

\* Step 5: the insert when no row was read, else the update; either may fail,
\* and an insert fails when the user has a row by now.  Then history_entry and
\* the call of _update_github_history.
AnalyticsWrite(p) ==
    /\ pc[p] = "analytics_write"
    /\ LET current_data == frame[p].current_data
           analytics_update ==
               AnalyticsUpdate(current_data, frame[p].user_id, frame[p].score)
       IN  \E executed \in BOOLEAN :
             IF executed /\ (current_data.exists \/ ~db.user_analytics.exists)
             THEN LET analytics_record ==
                          IF current_data.exists
                          THEN RowWith(db.user_analytics, analytics_update)
                          ELSE RowWith(NewRow, analytics_update)
                  IN  /\ db' = [db EXCEPT !.user_analytics = analytics_record]
                      /\ frame' = [frame EXCEPT ![p] =
                            [test_attempt_id |-> frame[p].test_attempt_id,
                             user_id |-> frame[p].user_id,
                             score |-> frame[p].score,
                             analytics_record |-> analytics_record]]
                      /\ local' = [local EXCEPT ![p] =
                            [new_entry |-> HistoryEntry(frame[p].test_attempt_id,
                                             clock, frame[p].score, analytics_update)]]
                      /\ clock' = clock + 1
                      /\ ret' = [ret EXCEPT ![p] =
                                    [ok |-> "attempt_chapters", raise |-> "failed"]]
                      /\ pc' = [pc EXCEPT ![p] = "hist_get"]
                      /\ outcome' = [outcome EXCEPT ![p].analytics = "ok"]
                      /\ succeeded' = [succeeded EXCEPT !.analytics = @ + 1]
             ELSE /\ pc' = [pc EXCEPT ![p] = "failed"]
                  /\ outcome' = [outcome EXCEPT ![p].analytics = "error"]
                  /\ UNCHANGED <<db, frame, local, clock, ret, succeeded>>
    /\ UNCHANGED <<store, todo, applied, base>>

\* Step 6: chapter_scores and the call of _update_chapter_stats.
AttemptChapters(p) ==
    /\ pc[p] = "attempt_chapters"
    /\ local' = [local EXCEPT ![p] =
                    [new_chapter_scores |-> frame[p].score.chapter_scores]]
    /\ ret' = [ret EXCEPT ![p] = [ok |-> "attempt_urls", raise |-> "failed"]]
    /\ pc' = [pc EXCEPT ![p] = "chap_get"]
    /\ UNCHANGED <<store, clock, todo, outcome, applied, succeeded, base, frame, db>>

\* Step 7: the URLs that differ from the row's are written to it, and the
\* operation returns.
AttemptUrls(p) ==
    /\ pc[p] = "attempt_urls"
    /\ LET analytics_record == frame[p].analytics_record
           update_payload ==
               [k \in {k \in {"history_url", "chapter_url"} :
                          (IF k = "history_url" THEN DownloadUrl.history
                           ELSE DownloadUrl.chapters) # analytics_record[k]} |->
                   IF k = "history_url" THEN DownloadUrl.history
                   ELSE DownloadUrl.chapters]
       IN  \E executed \in (IF DOMAIN update_payload = {} THEN {TRUE} ELSE BOOLEAN) :
             IF executed
             THEN /\ db' = [db EXCEPT !.user_analytics = RowWith(@, update_payload)]
                  /\ pc' = [pc EXCEPT ![p] = "done"]
                  /\ outcome' = [outcome EXCEPT ![p].urls = "ok"]
                  /\ succeeded' = [succeeded EXCEPT !.urls = @ + 1]
             ELSE /\ pc' = [pc EXCEPT ![p] = "failed"]
                  /\ outcome' = [outcome EXCEPT ![p].urls = "error"]
                  /\ UNCHANGED <<db, succeeded>>
    /\ UNCHANGED <<store, clock, ret, local, todo, applied, base, frame>>

NextAttempt ==
    \E p \in Procs :
        \/ AttemptStart(p) /\ UNCHANGED <<scoreVars, commute>>
        \/ AnalyticsSelect(p) /\ UNCHANGED <<scoreVars, commute>>
        \/ AnalyticsWrite(p) /\ UNCHANGED <<scoreVars, commute>>
        \/ HistGet(p) /\ UNCHANGED <<scoreVars, commute, attemptVars>>
        \/ HistPut(p) /\ UNCHANGED <<scoreVars, commute, attemptVars>>
        \/ AttemptChapters(p) /\ UNCHANGED <<scoreVars, commute>>
        \/ ChapGet(p) /\ UNCHANGED <<scoreVars, commute, attemptVars>>
        \/ ChapPut(p) /\ UNCHANGED <<scoreVars, commute, attemptVars>>
        \/ AttemptUrls(p) /\ UNCHANGED <<scoreVars, commute>>

SpecAttempt == InitAttempt /\ [][NextAttempt]_vars

MaxAttempts == 3

\* A user without a row and without files, whose requests one caller makes
\* one after the other.
InitOneAtATime ==
    /\ ScoreIdle
    /\ commute = NoCommute
    /\ InitDb(NoRow)
    /\ store = [history |-> AbsentDoc, chapters |-> AbsentDoc]
    /\ base = store
    /\ clock = 1
    /\ pc = [p \in Procs |-> "idle"]
    /\ ret = [p \in Procs |-> [ok |-> "idle", raise |-> "idle"]]
    /\ local = [p \in Procs |-> [idle |-> TRUE]]
    /\ todo = [p \in Procs |-> IF p = "a" THEN [i \in 1..MaxAttempts |-> "attempt"]
                                ELSE <<>>]
    /\ outcome = [p \in Procs |-> NoOutcome]
    /\ applied = [history |-> <<>>, chapters |-> <<>>]
    /\ succeeded = [analytics |-> 0, history |-> 0, chapters |-> 0, urls |-> 0]

\* The caller of an operation that has ended makes its next request.
AttemptAgain(p) ==
    /\ pc[p] \in {"done", "failed"}
    /\ todo[p] # <<>>
    /\ pc' = [pc EXCEPT ![p] = "idle"]
    /\ UNCHANGED <<store, clock, ret, local, todo, outcome, applied, succeeded,
                   base, frame, db>>

NextOneAtATime ==
    \/ NextAttempt
    \/ \E p \in Procs : AttemptAgain(p) /\ UNCHANGED <<scoreVars, commute>>

SpecOneAtATime == InitOneAtATime /\ [][NextOneAtATime]_vars

(***************************************************************************)
(* Properties of process_test_attempt.                                     *)
(***************************************************************************)
\* The operation has returned or raised.
Ended(p) == pc[p] \in {"done", "failed"}

PersistenceSteps == {"analytics", "history", "chapters"}

\* C10: the three persistence steps of process_test_attempt (the
\* user_analytics write, the history merge, the chapter-stats merge) are
\* independent: when the operation has ended and one of the steps failed, each
\* of the three steps was still executed; in particular a failed history merge
\* is followed by the chapter-stats merge.
C10_StepsIndependent ==
    \A p \in Procs :
        Ended(p) =>
            \A failedStep \in PersistenceSteps :
                outcome[p][failedStep] = "error" =>
                    \A step \in PersistenceSteps : outcome[p][step] # "none"

\* The row is the row before with the scores of an attempt added, a field that
\* is not there counting as 0.
AddedTo(before, score, row) ==
    /\ row.attempt_no = Get(before, "attempt_no", 0) + 1
    /\ row.phy_avg = Get(before, "phy_avg", 0) + score.phy_score
    /\ row.chem_avg = Get(before, "chem_avg", 0) + score.chem_score
    /\ row.math_avg = Get(before, "math_avg", 0) + score.math_score
    /\ row.accuracy = Get(before, "accuracy", 0) + score.accuracy_int
    /\ row.percentile = Get(before, "percentile", 0) + score.percentile_int

RECURSIVE EntriesOf(_, _)
EntriesOf(items, test_attempt_id) ==
    IF items = <<>> THEN 0
    ELSE EntriesOf(Tail(items), test_attempt_id)
           + (IF Head(items).test_attempt_id = test_attempt_id THEN 1 ELSE 0)

\* The operations whose history merge of the attempt succeeded.
RunsOf(test_attempt_id) ==
    { p \in Procs : /\ "test_attempt_id" \in DOMAIN frame[p]
                    /\ frame[p].test_attempt_id = test_attempt_id
                    /\ outcome[p].history = "ok" }

StoredLog == IF store.history.exists THEN store.history.content.value.items ELSE <<>>

\* C18: a run of process_test_attempt for an attempt that was processed
\* before is not deduplicated: the history log holds one entry of a
\* test_attempt_id for every run whose history merge succeeded, so two entries
\* after two runs for the same attempt.
C18_RerunDuplicates ==
    \A test_attempt_id \in AttemptIds :
        EntriesOf(StoredLog, test_attempt_id) = Cardinality(RunsOf(test_attempt_id))

\* C18 witness: both operations ran to their end for the attempt t1, and the
\* log holds two entries of t1.
C18_Witness ==
    /\ \A p \in Procs : pc[p] = "done" /\ frame[p].test_attempt_id = "t1"
    /\ EntriesOf(StoredLog, "t1") = 2

\* C25: for a user who starts with no user_analytics row and no history file
\* and whose process_test_attempt calls run one at a time, when a call returns
\* successfully the history log is as long as the row's attempt_no says and
\* the cumulative_stats of its last entry are the values stored in the row,
\* even when earlier calls of the user failed part-way.
C25_LogMatchesRow ==
    [][\A p \in Procs :
         (/\ ~base.history.exists
          /\ pc[p] # "done"
          /\ pc'[p] = "done") =>
             LET row == db'.user_analytics
                 log == IF store'.history.exists
                        THEN store'.history.content.value.items ELSE <<>>
             IN  /\ Len(log) = row.attempt_no
                 /\ log # <<>>
                 /\ \A field \in DOMAIN log[Len(log)].cumulative_stats :
                      log[Len(log)].cumulative_stats[field] = row[field]]_vars

\* The sum of a score of the attempts of all operations.
ScoreSum(field) == frame["a"].score[field] + frame["b"].score[field]

\* C23: after any interleaving of process_test_attempt calls for the same user
\* that all complete successfully (here two), the user's attempt_no is its
\* initial value plus the number of calls and each cumulative field is its
\* initial value plus the sum of the attempts' scores: no increment is lost
\* when two calls overlap between reading the row and updating it.  The user
\* starts without a row and without files, or with a row of attempt_no 1,
\* phy_avg 4 and accuracy and percentile 100 and 10 or null.
C23_NoLostUpdate ==
    (\A p \in Procs : pc[p] = "done") =>
        LET row == db.user_analytics
            had == base.history.exists
        IN  /\ row.attempt_no = (IF had THEN 1 ELSE 0) + Cardinality(Procs)
            /\ row.phy_avg = (IF had THEN 4 ELSE 0) + ScoreSum("phy_score")
            /\ row.chem_avg = ScoreSum("chem_score")
            /\ row.math_avg = ScoreSum("math_score")
            /\ <<row.accuracy - ScoreSum("accuracy_int"),
                 row.percentile - ScoreSum("percentile_int")>>
                  \in (IF had THEN {<<0, 0>>, <<100, 10>>} ELSE {<<0, 0>>})

\* The student_tests record of the request of p lacks user_id or test_id.
LacksIdentifier(p) ==
    /\ "test_attempt_id" \in DOMAIN frame[p]
    /\ Has(StudentTests, frame[p].test_attempt_id)
    /\ LET student_test == Lookup(StudentTests, frame[p].test_attempt_id)
       IN  "user_id" \notin DOMAIN student_test \/ "test_id" \notin DOMAIN student_test

\* C17: a request whose student_tests record lacks user_id or test_id fails,
\* and performs no write: none of its three persistence steps and no update of
\* the URLs is executed.
C17_MissingIdentifierFatal ==
    \A p \in Procs :
        LacksIdentifier(p) => (pc[p] = "failed" /\ outcome[p] = NoOutcome)

(***************************************************************************)
(* calculate_student_test_score and ScoreService.push_to_github            *)
(***************************************************************************)
MaxCalcCalls == 2

\* content.download_url of the result file of the student test.
ResultUrl == "s1.json"

\* The student_tests row of the request: with or without test_id, and with
\* no result_url yet.
StudentTestRows ==
    { [user_id |-> "u1", test_id |-> "T", result_url |-> NoUrl],
      [user_id |-> "u1", result_url |-> NoUrl] }

\* What calculate_score returns for the answers and the test JSON a request
\* reads.
ScoreResults ==
    { DictVal([total_stats |-> [total_score |-> 4, total_correct |-> 1]]),
      DictVal([total_stats |-> [total_score |-> -1, total_correct |-> 0]]) }

\* Two clients send calculate requests for one student test.
InitCalc ==
    /\ ScoreIdle
    /\ commute = NoCommute
    /\ \E row \in StudentTestRows :
         db = [user_analytics |-> NoRow, student_test |-> row]
    /\ frame = [p \in Procs |-> [idle |-> TRUE]]
    /\ store = [history |-> AbsentDoc, chapters |-> AbsentDoc, result |-> AbsentDoc]
    /\ base = store
    /\ clock = 1
    /\ pc = [p \in Procs |-> "idle"]
    /\ ret = [p \in Procs |-> [ok |-> "idle", raise |-> "idle"]]
    /\ local = [p \in Procs |-> [idle |-> TRUE]]
    /\ todo = [p \in Procs |-> [i \in 1..MaxCalcCalls |-> "calculate"]]
    /\ outcome = [p \in Procs |-> NoOutcome]
    /\ applied = [history |-> <<>>, chapters |-> <<>>]
    /\ succeeded = [analytics |-> 0, history |-> 0, chapters |-> 0, urls |-> 0]

\* current_user when authentication is disabled or no token was sent.
NoUser == ""

\* (variant: the result_url already there is returned before the ownership
\* check)
CalcOutcomeUrlFirst(student_test, enable_auth, current_user, fetched, result) ==
    IF student_test.result_url # NoUrl
    THEN [status |-> 200, github_url |-> student_test.result_url]
    ELSE IF enable_auth /\ current_user = NoUser
    THEN [status |-> 401]
    ELSE IF enable_auth /\ student_test.user_id # current_user
    THEN [status |-> 403]
    ELSE IF "test_id" \notin DOMAIN student_test
    THEN [status |-> 400]
    ELSE IF ~fetched
    THEN [status |-> 502]
    ELSE [result |-> result]

\* (variant: the score is computed again although a result_url is there)
CalcOutcomeRecomputed(student_test, enable_auth, current_user, fetched, result) ==
    IF enable_auth /\ current_user = NoUser
    THEN [status |-> 401]
    ELSE IF enable_auth /\ student_test.user_id # current_user
    THEN [status |-> 403]
    ELSE IF "test_id" \notin DOMAIN student_test
    THEN [status |-> 400]
    ELSE IF ~fetched
    THEN [status |-> 502]
    ELSE [result |-> result]

\* Steps 2 to 5 of a request whose row was found: the ownership check when
\* authentication is enabled, the early return of a result_url already there,
\* the check of test_id, the test record and JSON, and calculate_score.
CalcOutcome(student_test, enable_auth, current_user, fetched, result) ==
    IF enable_auth /\ current_user = NoUser
    THEN [status |-> 401]
    ELSE IF enable_auth /\ student_test.user_id # current_user
    THEN [status |-> 403]
    ELSE IF student_test.result_url # NoUrl
    THEN [status |-> 200, github_url |-> student_test.result_url]
    ELSE IF "test_id" \notin DOMAIN student_test
    THEN [status |-> 400]
    ELSE IF ~fetched
    THEN [status |-> 502]
    ELSE [result |-> result]

\* Steps 1 to 5: the student_tests row and what follows from it; current_user
\* is None when authentication is disabled, else the user of the token.
CalcStart(p) ==
    /\ pc[p] = "idle"
    /\ todo[p] # <<>> /\ Head(todo[p]) = "calculate"
    /\ todo' = [todo EXCEPT ![p] = Tail(@)]
    /\ \E enable_auth \in BOOLEAN, fetched \in BOOLEAN, result \in ScoreResults :
         \E current_user \in (IF enable_auth THEN {"u1", "u2"} ELSE {NoUser}) :
            frame' = [frame EXCEPT ![p] =
                RowWith(CalcOutcome(db.student_test, enable_auth, current_user,
                                    fetched, result),
                        [enable_auth |-> enable_auth, current_user |-> current_user])]
    /\ pc' = [pc EXCEPT ![p] = IF "status" \in DOMAIN frame'[p] THEN "idle" ELSE "push_get"]
    /\ UNCHANGED <<store, clock, ret, local, outcome, applied, succeeded, base, db>>

\* push_to_github: the GET that looks for the sha of a file already there.
PushGet(p) ==
    /\ pc[p] = "push_get"
    /\ \E resp \in GetResponses(store.result) :
         frame' = [frame EXCEPT ![p] =
                      [result |-> frame[p].result,
                       sha |-> IF resp.kind = "response" /\ resp.status = 200
                               THEN resp.sha ELSE NoSha]]
    /\ pc' = [pc EXCEPT ![p] = "push_put"]
    /\ UNCHANGED <<store, clock, ret, local, todo, outcome, applied, succeeded,
                   base, db>>

\* push_to_github: the PUT and raise_for_status; a refused PUT ends the request
\* with 502.
PushPut(p) ==
    /\ pc[p] = "push_put"
    /\ LET payload == PayloadOf(frame[p].sha, Encoded(frame[p].result))
       IN  IF PutAccepted(store.result, payload)
           THEN /\ store' = [store EXCEPT !.result = DocAfterPut(@, payload)]
                /\ frame' = [frame EXCEPT ![p] = [github_url |-> ResultUrl]]
                /\ pc' = [pc EXCEPT ![p] = "calc_url"]
           ELSE /\ frame' = [frame EXCEPT ![p] = [status |-> 502]]
                /\ pc' = [pc EXCEPT ![p] = "idle"]
                /\ UNCHANGED store
    /\ UNCHANGED <<clock, ret, local, todo, outcome, applied, succeeded, base, db>>

\* Step 7: result_url is written to the row, or the write fails and is only
\* logged; the request returns the URL either way.
CalcUrl(p) ==
    /\ pc[p] = "calc_url"
    /\ \E executed \in BOOLEAN :
         IF executed
         THEN db' = [db EXCEPT !.student_test.result_url = frame[p].github_url]
         ELSE UNCHANGED db
    /\ frame' = [frame EXCEPT ![p] = [status |-> 200, github_url |-> frame[p].github_url]]
    /\ pc' = [pc EXCEPT ![p] = "idle"]
    /\ UNCHANGED <<store, clock, ret, local, todo, outcome, applied, succeeded, base>>

NextCalc ==
    \E p \in Procs :
        \/ CalcStart(p) /\ UNCHANGED <<scoreVars, commute>>
        \/ PushGet(p) /\ UNCHANGED <<scoreVars, commute>>
        \/ PushPut(p) /\ UNCHANGED <<scoreVars, commute>>
        \/ CalcUrl(p) /\ UNCHANGED <<scoreVars, commute>>

SpecCalc == InitCalc /\ [][NextCalc]_vars

\* C11: once the result document of a student test is in the store, no later
\* calculate request for that student test changes it.
C11_ResultImmutable ==
    [][store.result.exists => store'.result = store.result]_vars

\* The step in which p takes a calculate request.
CalcRequest(p) == pc[p] = "idle" /\ todo'[p] # todo[p]

\* The request p took has ended with this answer and nothing else was done:
\* no score computed, no push begun, no document and no row written.
OnlyAnswered(p, answer) ==
    /\ \A field \in DOMAIN answer :
         field \in DOMAIN frame'[p] /\ frame'[p][field] = answer[field]
    /\ DOMAIN frame'[p] \ {"enable_auth", "current_user"} = DOMAIN answer
    /\ pc'[p] = "idle"
    /\ store' = store
    /\ db' = db

\* The caller of the request p took is not the owner of the student test,
\* authentication being enabled.
NotOwner(p) ==
    frame'[p].enable_auth /\ frame'[p].current_user # db.student_test.user_id

\* C26 as stated: calculate_student_test_score called for a student test
\* whose result_url is set returns that URL and does nothing else, whoever
\* calls.
C26_ExistingUrlReturned ==
    [][\A p \in Procs :
         (CalcRequest(p) /\ db.student_test.result_url # NoUrl) =>
             OnlyAnswered(p, [status |-> 200,
                              github_url |-> db.student_test.result_url])]_vars

\* C26: calculate_student_test_score called for a student test whose
\* result_url is set, with authentication disabled or by the owner of the
\* test, returns that URL and does nothing else: no test definition fetched,
\* no score computed, nothing written to the store, no row updated; called by
\* another user with authentication enabled it answers 403 and does nothing
\* else either.
C26_ExistingUrlReturnedToOwner ==
    [][\A p \in Procs :
         (CalcRequest(p) /\ db.student_test.result_url # NoUrl) =>
             IF NotOwner(p)
             THEN OnlyAnswered(p, [status |-> 403])
             ELSE OnlyAnswered(p, [status |-> 200,
                                   github_url |-> db.student_test.result_url])]_vars

\* C26 witness: one client made two requests, the first wrote the result and
\* its URL, and the second was answered with that URL, the result document
\* still in its first version.
C26_Witness ==
    /\ pc = [p \in Procs |-> "idle"]
    /\ todo["a"] = <<>> /\ Len(todo["b"]) = MaxCalcCalls
    /\ "enable_auth" \in DOMAIN frame["a"]
    /\ frame["a"].status = 200
    /\ frame["a"].github_url = ResultUrl
    /\ db.student_test.result_url = ResultUrl
    /\ store.result.sha = 1

\* C28: with authentication enabled, a calculate request for a student test
\* whose user_id is not the id of the authenticated user is rejected with 403
\* and nothing else is done: the existing result URL is not returned, no score
\* is computed, nothing is written to the store or to the database.
C28_NotOwnerRejected ==
    [][\A p \in Procs :
         (CalcRequest(p) /\ NotOwner(p)) => OnlyAnswered(p, [status |-> 403])]_vars

\* C28 witness: one client made two requests, the first as the owner wrote
\* the result and its URL, the second as another user was answered 403.
C28_Witness ==
    /\ pc = [p \in Procs |-> "idle"]
    /\ todo["a"] = <<>> /\ Len(todo["b"]) = MaxCalcCalls
    /\ frame["a"] = [status |-> 403, enable_auth |-> TRUE, current_user |-> "u2"]
    /\ db.student_test.result_url = ResultUrl
    /\ store.result.exists

(***************************************************************************)
(* Properties of the read step of the merges.                              *)
(***************************************************************************)
\* The merge of p has read its file and goes on to the PUT.
GoesOnToPut(p) == pc[p] \in {"hist_put", "chap_put"}

\* C12: in the read step of a merge an absent document (404) is taken as an
\* empty document with no sha, and any other fetch failure (an exception, a
\* status that is neither 200 nor 404) is surfaced to the caller: the merge
\* does not go on as if the document were absent.
C12_FetchFailureSurfaced ==
    \A p \in Procs :
        GoesOnToPut(p) =>
            /\ local[p].read.kind = "response"
            /\ local[p].read.status \in {200, 404}
            /\ local[p].read.status = 404 => local[p].sha = NoSha

(***************************************************************************)
(* AnalyticsService.process_test_attempt, steps 2 to 4: the scores of the  *)
(* subjects, the accuracy and the percentile of one attempt.               *)
(***************************************************************************)
\* An entry of the "sections" list of the score JSON.
SectionDict(name) == [kind |-> "dict", name |-> name]
SectionStr(name) == [kind |-> "str", value |-> name]
SectionOther == [kind |-> "int"]

\* ordered_section_names: the names of the entries that are a dict or a str,
\* in the order of the list.
RECURSIVE NamesOf(_)
NamesOf(items) ==
    IF items = <<>> THEN <<>>
    ELSE LET s == Head(items)
         IN  (CASE s.kind = "dict" -> <<s.name>>
                [] s.kind = "str" -> <<s.value>>
                [] OTHER -> <<>>) \o NamesOf(Tail(items))

\* The keys of section_scores, the fallback when the list gives no name.
OrderedSectionNames(sections, scores) ==
    LET ordered_section_names == IF sections.type = "list" THEN NamesOf(sections.items)
                                 ELSE <<>>
    IN  IF ordered_section_names = <<>>
        THEN [i \in 1..Len(scores) |-> scores[i].key]
        ELSE ordered_section_names

\* section_scores.get(section_name, {}).get("score", 0)
SectionScore(scores, section_name) ==
    IF Has(scores, section_name) THEN Lookup(scores, section_name).score ELSE 0

\* The sum of the scores of the names at the 0-based positions lo..hi.
RECURSIVE PositionalSum(_, _, _, _)
PositionalSum(names, scores, lo, hi) ==
    IF lo > hi \/ lo + 1 > Len(names) THEN 0
    ELSE SectionScore(scores, names[lo + 1]) + PositionalSum(names, scores, lo + 1, hi)

\* (variant: three sections to a subject)
SubjectScoresByThree(names, scores) ==
    [phy_score |-> PositionalSum(names, scores, 0, 2),
     chem_score |-> PositionalSum(names, scores, 3, 5),
     math_score |-> PositionalSum(names, scores, 6, 8)]

\* i < 2 physics, i < 4 chemistry, i < 6 math, the rest ignored.
SubjectScores(names, scores) ==
    [phy_score |-> PositionalSum(names, scores, 0, 1),
     chem_score |-> PositionalSum(names, scores, 2, 3),
     math_score |-> PositionalSum(names, scores, 4, 5)]

\* int(round(num / den)) for den > 0 and num >= 0: to the nearest integer, a
\* half to the even one.
RoundHalfEven(num, den) ==
    LET q == num \div den
        r == num % den
    IN  IF 2 * r > den \/ (2 * r = den /\ q % 2 = 1) THEN q + 1 ELSE q

\* accuracy_int
AccuracyInt(total_correct, total_attempted) ==
    IF total_attempted > 0 THEN RoundHalfEven(total_correct * 100, total_attempted)
    ELSE 0

\* int(round(100 * (1 - (n / m99) ** 1.87))) for the m99 of the tests table and
\* n = m99 - effective_score from 0 upwards, as the floating-point power gives it.
PercentileRounded ==
    (4 :> <<100, 93, 73, 42, 0, -52, -113, -185, -266>>)
    @@ (10 :> <<100, 99, 95, 89, 82, 73, 62, 49, 34, 18, 0, -20, -41, -63, -88>>)
    @@ (200 :> ((1 :> 100)
                @@ [i \in 189..205 |->
                      <<11, 10, 9, 8, 7, 6, 6, 5, 4, 3, 2, 1, 0, -1, -2, -3, -4>>[i - 188]]))

Min(a, b) == IF a < b THEN a ELSE b

\* (variant: a score at or above the 99ile given the percentile 99)
PercentileIntAt99(total_score, m99) ==
    IF m99 > 0
    THEN IF total_score >= m99 THEN 99
         ELSE PercentileRounded[m99][m99 - total_score + 1]
    ELSE 0

\* percentile_int
PercentileInt(total_score, m99) ==
    IF m99 > 0
    THEN LET effective_score == Min(total_score, m99)
         IN  PercentileRounded[m99][m99 - effective_score + 1]
    ELSE 0

\* The section_scores of a score JSON: seven sections, or two.
SevenSections ==
    << Pair("S1", [score |-> 1]), Pair("S2", [score |-> 2]), Pair("S3", [score |-> 4]),
       Pair("S4", [score |-> 8]), Pair("S5", [score |-> 16]), Pair("S6", [score |-> 32]),
       Pair("S7", [score |-> 64]) >>

TwoSections == << Pair("S2", [score |-> -2]), Pair("S1", [score |-> 5]) >>

\* The "sections" of a score JSON: the first k of the seven sections, the seven
\* in reverse, a list with a str entry, an entry that is neither dict nor str,
\* a name without scores and a name twice, or a value that is no list.
SectionsValues ==
    { ListVal([i \in 1..k |-> SectionDict(SevenSections[i].key)]) : k \in 0..7 }
    \cup { ListVal([i \in 1..7 |-> SectionDict(SevenSections[8 - i].key)]),
           ListVal(<<SectionStr("S3"), SectionOther, SectionDict("S1"),
                     SectionDict("S9"), SectionDict("S1")>>),
           DictVal(<<>>) }

TotalScores == (-4..12) \cup {250}

\* total_stats of a score JSON, with or without the counts.
TotalStatsValues ==
    { [total_score |-> t, total_attempted |-> c[1], total_correct |-> c[2]] :
        t \in TotalScores, c \in { <<0, 0>>, <<2, 2>>, <<3, 2>>, <<8, 1>> } }
    \cup { [total_score |-> t] : t \in TotalScores }

\* "99ile" of the tests row, 0 when there is none.
M99Values == {-5, 0, 4, 10, 200}

ScoreDataValues ==
    { [section_scores |-> ss, total_stats |-> ts, sections |-> sec] :
        ss \in {SevenSections, TwoSections}, ts \in TotalStatsValues,
        sec \in SectionsValues }

\* One operation has the score JSON and the tests row of its attempt.
InitDerive ==
    /\ ScoreIdle
    /\ commute = NoCommute
    /\ InitStore(AbsentDoc, AbsentDoc, <<>>)
    /\ db = [user_analytics |-> NoRow]
    /\ \E score_data \in ScoreDataValues, m99 \in M99Values :
         frame = [p \in Procs |->
                    IF p = "a" THEN [score_data |-> score_data, m99 |-> m99,
                                     step |-> "subjects"]
                    ELSE [idle |-> TRUE]]

\* Step 4: the ordered section names and the scores of the three subjects.
DeriveSubjects(p) ==
    /\ Get(frame[p], "step", "none") = "subjects"
    /\ LET score_data == frame[p].score_data
           ordered_section_names ==
               OrderedSectionNames(score_data.sections, score_data.section_scores)
       IN  frame' = [frame EXCEPT ![p] =
              RowWith(@, [step |-> "accuracy",
                          ordered_section_names |-> ordered_section_names]
                         @@ SubjectScores(ordered_section_names,
                                          score_data.section_scores))]
    /\ UNCHANGED db

\* Step 4: the accuracy.
DeriveAccuracy(p) ==
    /\ Get(frame[p], "step", "none") = "accuracy"
    /\ LET stats == frame[p].score_data.total_stats
       IN  frame' = [frame EXCEPT ![p] =
              RowWith(@, [step |-> "percentile",
                          accuracy_int |->
                              AccuracyInt(Get(stats, "total_correct", 0),
                                          Get(stats, "total_attempted", 0))])]
    /\ UNCHANGED db

\* Step 4: the percentile, with the term that is raised to the power k.
DerivePercentile(p) ==
    /\ Get(frame[p], "step", "none") = "percentile"
    /\ LET total_score == frame[p].score_data.total_stats.total_score
           m99 == frame[p].m99
       IN  frame' = [frame EXCEPT ![p] =
              RowWith(@, [step |-> "derived",
                          term |-> IF m99 > 0
                                   THEN [num |-> m99 - Min(total_score, m99), den |-> m99]
                                   ELSE [num |-> 0, den |-> 1],
                          percentile_int |-> PercentileInt(total_score, m99)])]
    /\ UNCHANGED db

NextDerive ==
    \E p \in Procs :
        \/ DeriveSubjects(p) /\ UNCHANGED <<scoreVars, storeVars, commute>>
        \/ DeriveAccuracy(p) /\ UNCHANGED <<scoreVars, storeVars, commute>>
        \/ DerivePercentile(p) /\ UNCHANGED <<scoreVars, storeVars, commute>>

SpecDerive == InitDerive /\ [][NextDerive]_vars

(***************************************************************************)
(* Properties of the derived scores.                                       *)
(***************************************************************************)
Derived(p) == Get(frame[p], "step", "none") = "derived"

\* C14: the percentile of process_test_attempt lies in [0,100] for every
\* total score and every 99ile: the term (m99 - min(total_score, m99)) / m99
\* lies in [0,1] when m99 > 0, and the percentile is 0 when m99 <= 0.
C14_PercentileInRange ==
    \A p \in Procs :
        Derived(p) =>
            /\ frame[p].percentile_int >= 0 /\ frame[p].percentile_int <= 100
            /\ frame[p].m99 > 0 =>
                  (frame[p].term.num >= 0 /\ frame[p].term.num <= frame[p].term.den)
            /\ frame[p].m99 <= 0 => frame[p].percentile_int = 0

\* effective_score, from the term (m99 - effective_score) / m99.
EffectiveScore(p) == frame[p].m99 - frame[p].term.num

\* C21: whenever total_score >= m99 > 0 the effective score is clamped to m99
\* and the percentile is exactly 100.
C21_ClampedPercentile ==
    \A p \in Procs :
        (/\ Derived(p)
         /\ frame[p].m99 > 0
         /\ frame[p].score_data.total_stats.total_score >= frame[p].m99) =>
            /\ EffectiveScore(p) = frame[p].m99
            /\ frame[p].percentile_int = 100

\* C21 witness: the 99ile is 200 and the total score 250.
C21_Witness ==
    \E p \in Procs :
        /\ Derived(p)
        /\ frame[p].m99 = 200
        /\ frame[p].score_data.total_stats.total_score = 250
        /\ frame[p].percentile_int = 100

\* The score of the section at a 0-based position of the ordered list, 0
\* beyond its end.
ScoreAt(p, i) ==
    IF i + 1 <= Len(frame[p].ordered_section_names)
    THEN SectionScore(frame[p].score_data.section_scores,
                      frame[p].ordered_section_names[i + 1])
    ELSE 0

\* C20: the subject scores go by position in the ordered section list:
\* physics is the sum of the scores of the sections at positions 0 and 1,
\* chemistry of positions 2 and 3, math of positions 4 and 5; a section at
\* position 6 or later counts for no subject and one below 6 for exactly one.
C20_SubjectsByPosition ==
    \A p \in Procs :
        Derived(p) =>
            /\ frame[p].phy_score = ScoreAt(p, 0) + ScoreAt(p, 1)
            /\ frame[p].chem_score = ScoreAt(p, 2) + ScoreAt(p, 3)
            /\ frame[p].math_score = ScoreAt(p, 4) + ScoreAt(p, 5)

\* C20 witness: seven sections in order, the seventh left out.
C20_Witness ==
    \E p \in Procs :
        /\ Derived(p)
        /\ Len(frame[p].ordered_section_names) = 7
        /\ frame[p].phy_score = 3
        /\ frame[p].chem_score = 12
        /\ frame[p].math_score = 48

\* The store while only the scoring engine runs.
ScoreIdleStore ==
    InitStore(AbsentDoc, AbsentDoc, <<>>) /\ commute = NoCommute /\ InitDb(NoRow)

InitScore == ScoreStart /\ ScoreIdleStore

SpecScore ==
    InitScore /\ [][NextScore /\ UNCHANGED <<earlier, storeVars, commute, attemptVars>>]_vars

(***************************************************************************)
(* Calls of calculate_score one after the other on one ScoreService.       *)
(***************************************************************************)
MaxCalls == 3

\* (variant: the dict of the call before kept)
CarriedChapterScores(previous) == previous

\* chapter_scores = {} at the start of a call.
FreshChapterScores(previous) == <<>>

\* The arguments of the calls.
ServiceDefinitions ==
    { ExampleDefinition,
      [sections |-> << [name |-> "S1", marksPerQuestion |-> 4,
                        negagiveMarksPerQuestion |-> -1] >>,
       questions |-> << [uuid |-> "q2", id |-> 2, section |-> "S1",
                         correctAnswer |-> StrVal(<<"B", " ">>),
                         tags |-> [tag2 |-> "CH2"]],
                        [uuid |-> "q1", id |-> 4, section |-> "SX",
                         correctAnswer |-> StrVal(<<"B">>)] >>],
      [sections |-> <<>>, questions |-> <<NullTagsQuestion>>] }

ServiceResponses == { <<>>, [q1 |-> StrVal(<<"B">>)], [q1 |-> StrVal(<<"C">>), q2 |-> None] }

InitService ==
    /\ ppt_data \in ServiceDefinitions
    /\ response_data \in ServiceResponses
    /\ qpos = 0
    /\ attempt_comparison = <<>>
    /\ section_scores = InitSectionScores(sections_config)
    /\ chapter_scores = <<>>
    /\ total_stats = ZeroTotals
    /\ output = NoOutput
    /\ earlier = <<>>
    /\ ScoreIdleStore

\* The call before has ended, and calculate_score is called again: its locals
\* are made anew.
ScoreCall ==
    /\ output # NoOutput
    /\ Len(earlier) < MaxCalls - 1
    /\ earlier' = Append(earlier, [ppt_data |-> ppt_data, response_data |-> response_data,
                               output |-> output])
    /\ ppt_data' \in ServiceDefinitions
    /\ response_data' \in ServiceResponses
    /\ qpos' = 0
    /\ attempt_comparison' = <<>>
    /\ section_scores' = InitSectionScores(SectionsConfigOf(Get(ppt_data', "sections", <<>>)))
    /\ chapter_scores' = FreshChapterScores(chapter_scores)
    /\ total_stats' = ZeroTotals
    /\ output' = NoOutput

NextService ==
    \/ ScoreCall /\ UNCHANGED <<storeVars, commute, attemptVars>>
    \/ ScoreQuestion /\ UNCHANGED <<earlier, storeVars, commute, attemptVars>>
    \/ ScoreReturn /\ UNCHANGED <<earlier, storeVars, commute, attemptVars>>
    \/ ScoreRaise /\ UNCHANGED <<earlier, storeVars, commute, attemptVars>>

SpecService == InitService /\ [][NextService]_vars

\* Call i had the arguments of the call at hand.
SameArguments(i) ==
    earlier[i].ppt_data = ppt_data /\ earlier[i].response_data = response_data

\* C16: calculate_score is deterministic and stateless: a call gives what
\* every earlier call with the same test definition and responses gave,
\* whatever calls were made in between.
C16_SameInputsSameOutput ==
    output # NoOutput =>
        \A i \in 1..Len(earlier) : SameArguments(i) => earlier[i].output = output

\* C16 witness: a third call has returned chapter scores for the arguments of
\* the first, after a second call with another test definition that returned
\* chapter scores too.
C16_Witness ==
    /\ Len(earlier) = 2
    /\ Returned
    /\ SameArguments(1)
    /\ earlier[2].ppt_data # ppt_data
    /\ "chapter_scores" \in DOMAIN earlier[2].output
    /\ earlier[2].output.chapter_scores # <<>>
    /\ output.chapter_scores # <<>>

(***************************************************************************)
(* The assembly of the output of calculate_score, with the order of its    *)
(* fields.                                                                 *)
(***************************************************************************)
MaxFields == 3

\* The five result fields in the order of their assignment, metadata_stats
\* those of a call that counted nothing.
ResultFields(comparison, sections, chapters, totals) ==
    << Pair("attempt_comparison", ListVal(comparison)),
       Pair("section_scores", DictVal(sections)),
       Pair("chapter_scores", DictVal(chapters)),
       Pair("metadata_stats",
            DictVal([correct |-> <<>>, incorrect |-> <<>>, unattempted |-> <<>>])),
       Pair("total_stats", DictVal(TotalStatsOf(totals))) >>

\* for key, value in items: if key != 'questions': output[key] = value
RECURSIVE PutAll(_, _, _)
PutAll(d, items, skip) ==
    IF items = <<>> THEN d
    ELSE PutAll(IF Head(items).key \in skip THEN d
                ELSE Put(d, Head(items).key, Head(items).val),
                Tail(items), skip)

\* (variant: the result fields first, the fields of the test definition after)
OutputResultsFirst(items, results) == PutAll(PutAll(<<>>, results, {}), items, {"questions"})

\* output: the fields of the test definition, then the result fields.
OutputOf(items, results) == PutAll(PutAll(<<>>, items, {"questions"}), results, {})

\* calculate_score after its loop; the items of ppt_data are fields of
\* different keys in some order, some named like a result field.
InitAssemble ==
    LET FieldPool ==
            { Pair("testId", StrVal(<<"T">>)),
              Pair("title", StrVal(<<"x">>)),
              Pair("sections", ListVal(<<>>)),
              Pair("questions", ListVal(<<>>)),
              Pair("total_stats", StrVal(<<"x">>)),
              Pair("chapter_scores", DictVal(<<>>)) }
        DefinitionItems ==
            { items \in SeqsUpTo(FieldPool, MaxFields) :
                \A i, j \in 1..Len(items) : i # j => items[i].key # items[j].key }
    IN  /\ ppt_data \in { [items |-> items] : items \in DefinitionItems }
        /\ response_data = <<>>
        /\ qpos = 0
        /\ attempt_comparison = <<>>
        /\ section_scores = <<>>
        /\ \E chapters \in { <<>>, <<Pair("PHY1", ZeroScores)>> } : chapter_scores = chapters
        /\ total_stats = ZeroTotals
        /\ output = NoOutput
        /\ earlier = <<>>
        /\ ScoreIdleStore

Assemble ==
    /\ output = NoOutput
    /\ output' = [items |-> OutputOf(ppt_data.items,
                                     ResultFields(attempt_comparison, section_scores,
                                                  chapter_scores, total_stats))]
    /\ UNCHANGED <<ppt_data, response_data, qpos, attempt_comparison, section_scores,
                   chapter_scores, total_stats, earlier>>

NextAssemble == Assemble /\ UNCHANGED <<storeVars, commute, attemptVars>>

SpecAssemble == InitAssemble /\ [][NextAssemble]_vars

Assembled == "items" \in DOMAIN output

\* The fields of the test definition but the 'questions', in input order.
RECURSIVE Passthrough(_)
Passthrough(items) ==
    IF items = <<>> THEN <<>>
    ELSE (IF Head(items).key = "questions" THEN <<>> ELSE <<Head(items)>>)
           \o Passthrough(Tail(items))

Results == ResultFields(attempt_comparison, section_scores, chapter_scores, total_stats)

RECURSIVE Without(_, _)
Without(items, keys) ==
    IF items = <<>> THEN <<>>
    ELSE (IF Head(items).key \in keys THEN <<>> ELSE <<Head(items)>>)
           \o Without(Tail(items), keys)

MaxPayments == 2

\* (variant: every signature is taken as good)
VerifiedAlways(signature, secret, message) == TRUE

\* verify_payment_signature and verify_webhook_signature return when the
\* signature is the one made with the secret over the message, else raise.
Verified(signature, secret, message) == signature = [by |-> secret, of |-> message]

\* _update_user_subscription: the update of the user's row, which may fail.
UpdateUserSubscription(users, user_id, plan_type, executed) ==
    IF executed /\ user_id \in DOMAIN users
    THEN [users EXCEPT ![user_id] = [subscription_tier |-> plan_type]]
    ELSE users

\* Two users on the free tier, and clients that send payment completions and
\* webhooks.
InitPayment ==
    /\ ScoreIdle
    /\ commute = NoCommute
    /\ db = [user_analytics |-> NoRow,
             users |-> [u \in {"u1", "u2"} |-> [subscription_tier |-> "free"]]]
    /\ frame = [p \in Procs |-> [idle |-> TRUE]]
    /\ InitStore(AbsentDoc, AbsentDoc, [i \in 1..MaxPayments |-> "payment"])

\* process_payment_completion(params): the signature over the order and the
\* payment id is verified with the key secret, the order is fetched, and the
\* user of its notes is given the plan of its notes.
ProcessPaymentCompletion(p) ==
    /\ pc[p] = "idle"
    /\ todo[p] # <<>> /\ Head(todo[p]) = "payment"
    /\ todo' = [todo EXCEPT ![p] = Tail(@)]
    /\ LET orders == [o1 |-> [notes |-> [userId |-> "u1", planType |-> "pro"]],
                      o2 |-> [notes |-> [userId |-> "u2"]],
                      o3 |-> [id |-> "o3"]]
           messages == { <<order_id, "p1">> : order_id \in DOMAIN orders }
       IN  \E razorpay_order_id \in DOMAIN orders,
              signature \in [by : {"key", "hook", "forged"}, of : messages] :
             LET order == orders[razorpay_order_id]
                 message == <<razorpay_order_id, "p1">>
                 call == [call |-> "completion", signature |-> signature,
                          message |-> message]
                 Ends(invoked, answer) ==
                     frame' = [frame EXCEPT ![p] =
                                 RowWith(call, [invoked |-> invoked, answer |-> answer])]
             IN  IF ~Verified(signature, "key", message)
                 THEN Ends(FALSE, "Invalid payment signature") /\ UNCHANGED db
                 ELSE \/ Ends(FALSE, "Could not fetch order") /\ UNCHANGED db
                      \/ IF /\ "notes" \in DOMAIN order
                            /\ "userId" \in DOMAIN order.notes
                            /\ "planType" \in DOMAIN order.notes
                         THEN \E executed \in BOOLEAN :
                                /\ db' = [db EXCEPT !.users =
                                       UpdateUserSubscription(@, order.notes.userId,
                                           order.notes.planType, executed)]
                                /\ Ends(TRUE, IF executed THEN "verified"
                                              ELSE "update failed")
                         ELSE Ends(FALSE, "verified, update skipped") /\ UNCHANGED db
    /\ UNCHANGED <<store, clock, pc, ret, local, outcome, applied, succeeded, base>>

\* process_webhook(body, signature): the signature over the body is verified
\* with the webhook secret, and for a payment.captured event the user of the
\* notes is given the plan of the notes.
ProcessWebhook(p) ==
    /\ pc[p] = "idle"
    /\ todo[p] # <<>> /\ Head(todo[p]) = "payment"
    /\ todo' = [todo EXCEPT ![p] = Tail(@)]
    /\ LET bodies == { [event |-> "payment.captured",
                        notes |-> [userId |-> "u1", planType |-> "max"]],
                       [event |-> "payment.captured", notes |-> [userId |-> "u2"]],
                       [event |-> "payment.failed",
                        notes |-> [userId |-> "u2", planType |-> "pro"]] }
       IN  \E body \in bodies,
              signature \in [by : {"key", "hook", "forged"}, of : bodies] :
             LET call == [call |-> "webhook", signature |-> signature,
                          message |-> body]
                 Ends(invoked, answer) ==
                     frame' = [frame EXCEPT ![p] =
                                 RowWith(call, [invoked |-> invoked, answer |-> answer])]
             IN  IF ~Verified(signature, "hook", body)
                 THEN Ends(FALSE, "Invalid signature") /\ UNCHANGED db
                 ELSE IF /\ body.event = "payment.captured"
                         /\ "userId" \in DOMAIN body.notes
                         /\ "planType" \in DOMAIN body.notes
                 THEN \E executed \in BOOLEAN :
                        /\ db' = [db EXCEPT !.users =
                               UpdateUserSubscription(@, body.notes.userId,
                                                      body.notes.planType, executed)]
                        /\ Ends(TRUE, IF executed THEN "returned" ELSE "update failed")
                 ELSE Ends(FALSE, "returned") /\ UNCHANGED db
    /\ UNCHANGED <<store, clock, pc, ret, local, outcome, applied, succeeded, base>>

NextPayment ==
    \E p \in Procs :
        \/ ProcessPaymentCompletion(p) /\ UNCHANGED <<scoreVars, commute>>
        \/ ProcessWebhook(p) /\ UNCHANGED <<scoreVars, commute>>

SpecPayment == InitPayment /\ [][NextPayment]_vars

\* The signature of the last call of p is the one made over what was sent,
\* with the key secret for a completion and the webhook secret for a webhook.
Genuine(p) ==
    frame[p].signature
      = [by |-> IF frame[p].call = "completion" THEN "key" ELSE "hook",
         of |-> frame[p].message]

\* C27: in PaymentService a user's subscription_tier is updated only after
\* the signature verification of the same call has succeeded: in
\* process_payment_completion and in process_webhook, when the verification
\* fails the call ends with an 'invalid signature' error and
\* _update_user_subscription is not invoked, and no subscription_tier changes
\* but in a call whose signature was verified.
C27_UpdateOnlyAfterVerification ==
    /\ [](\A p \in Procs :
            "call" \in DOMAIN frame[p] =>
                /\ frame[p].invoked => Genuine(p)
                /\ ~Genuine(p) =>
                      frame[p].answer = (IF frame[p].call = "completion"
                                         THEN "Invalid payment signature"
                                         ELSE "Invalid signature"))
    /\ [][db'.users # db.users =>
            \E p \in Procs : /\ todo'[p] # todo[p]
                              /\ frame'[p].invoked
                              /\ Genuine(p)']_vars

\* C27 witness: a completion whose signature was made with the key secret for
\* another order ended with the error, a webhook signed with the key secret
\* ended with the error, and no subscription_tier has changed.
C27_Witness ==
    /\ \A p \in Procs : "call" \in DOMAIN frame[p]
    /\ frame["a"].call = "completion"
    /\ frame["a"].signature = [by |-> "key", of |-> <<"o2", "p1">>]
    /\ frame["a"].message = <<"o1", "p1">>
    /\ frame["a"].answer = "Invalid payment signature"
    /\ frame["b"].call = "webhook"
    /\ frame["b"].signature.by = "key"
    /\ frame["b"].signature.of = frame["b"].message
    /\ frame["b"].answer = "Invalid signature"
    /\ \A u \in DOMAIN db.users : db.users[u].subscription_tier = "free"

====
